---- MODULE Spec2Model ----
(***************************************************************************)
(* Build-PipelineRun adapter of the integration service: finalizer         *)
(* lifecycle and Snapshot creation for build PipelineRuns (PLRs), over a   *)
(* shared object store.  The store holds the PLR objects and the           *)
(* Snapshots; one reconcile worker per PLR runs the adapter operations,    *)
(* one store call per step, and may crash between two store calls.         *)
(***************************************************************************)
EXTENDS Integers, Sequences, FiniteSets, TLC

(***************************************************************************)
(* Bounds of the model.                                                    *)
(***************************************************************************)
MaxSnapshots == 3   \* Snapshot objects ever created in the store
MaxConflicts == 2   \* conflicts the store answers to a PLR read
MaxForeign == 2     \* Snapshots created by a writer other than the worker
MaxNotes == 3       \* notes on the merge request

(***************************************************************************)
(* Fixtures of the adapter's test suite.                                   *)
(***************************************************************************)
buildPipelineRunName == "pipelinerun-build-sample"
buildPipelineRun2Name == "pipelinerun-build-sample-2"
hasComp == "component-sample"
hasApp == "application-sample"
hasComp2 == "another-component-sample"
\* the components of the application, in the order the loader lists them
ApplicationComponentNames == <<hasComp, hasComp2>>
SampleImageWithoutDigest == "quay.io/redhat-appstudio/sample-image"
SampleHex == "841328df1b9f8c4087adbdcfec6cc99ac8308805dea83f6d415d6fb8d40227c1"
\* a digest string, split at its first colon: algorithm, separator, encoded part
SampleDigest == [alg |-> "sha256", sep |-> TRUE, hex |-> SampleHex]
invalidDigest == [alg |-> "invalidDigest", sep |-> FALSE, hex |-> ""]
\* image references, split at "@" and at the first colon of the digest
SampleImage == <<SampleImageWithoutDigest, "@", "sha256", ":", SampleHex>>
\* the container images the fixtures give hasComp and hasComp2
invalidImage == <<"invalidImage">>
emptyImage == <<>>
ResultKeys == {"IMAGE_URL", "IMAGE_DIGEST", "CHAINS-GIT_URL", "CHAINS-GIT_COMMIT"}

\* label and annotation keys, split after the part a prefix rule can match
PipelinesAsCodePrefix == "pac.test.appstudio.openshift.io"
SnapshotTypeLabel == <<"test.appstudio.openshift.io", "/type">>
SnapshotComponentLabel == <<"appstudio.openshift.io", "/component">>
ApplicationNameLabel == <<"gitops.ApplicationNameLabel">>
BuildPipelineRunNameLabel == <<"gitops.BuildPipelineRunNameLabel">>
BuildPipelineRunStartTime == <<"gitops.BuildPipelineRunStartTime">>

\* labels and annotations of the build PLR of the tests; the annotations the
\* PLR record keeps in fields of their own (signed, snapshot, createSnapshot)
\* are not repeated here
PipelineRunLabels ==
  (<<"pipelines.appstudio.openshift.io", "/type">> :> "build") @@
  (<<"pipelines.openshift.io", "/used-by">> :> "build-cloud") @@
  (<<"pipelines.openshift.io", "/runtime">> :> "nodejs") @@
  (<<"pipelines.openshift.io", "/strategy">> :> "s2i") @@
  (<<"appstudio.openshift.io", "/component">> :> "component-sample") @@
  (<<"build.appstudio", ".redhat.com/target_branch">> :> "main") @@
  (<<"pipelinesascode.tekton.dev", "/event-type">> :> "pull_request") @@
  (<<"pipelinesascode.tekton.dev", "/pull-request">> :> "1") @@
  (<<"custom.appstudio.openshift.io", "/custom-label">> :> "custom-label")

PipelineRunAnnotations ==
  (<<"appstudio.redhat.com", "/updateComponentOnSuccess">> :> "false") @@
  (<<"pipelinesascode.tekton.dev", "/on-target-branch">> :> "[main,master]") @@
  (<<"build.appstudio", ".openshift.io/repo">> :>
     "https://github.com/devfile-samples/devfile-sample-go-basic?rev=c713067b0e65fb3de50d1f7c457eb51c2ab0dbb0") @@
  (<<"foo">> :> "bar") @@
  (<<"pipelinesascode.tekton.dev", "/source-branch">> :> "sourceBranch") @@
  (<<"pipelinesascode.tekton.dev", "/url-org">> :> "redhat")

\* results of a PLR that has not produced any
NoResults == [keys |-> {}, digest |-> invalidDigest]
\* the complete results of the succeeded build PLR
SampleResults == [keys |-> ResultKeys, digest |-> SampleDigest]
\* results lacking IMAGE_DIGEST and the commit
ResultsNoDigest == [keys |-> {"CHAINS-GIT_URL", "IMAGE_URL"}, digest |-> invalidDigest]
\* results with a malformed IMAGE_DIGEST
ResultsInvalidDigest == [keys |-> ResultKeys, digest |-> invalidDigest]
\* the result sets a build may end with in the reconciliation model
BuildResults == {SampleResults, ResultsNoDigest, ResultsInvalidDigest}

(***************************************************************************)
(* Operation results and errors.                                           *)
(***************************************************************************)
NilErr == [kind |-> "nil", text |-> <<>>]
ContinueProcessing == [CancelRequest |-> FALSE, RequeueRequest |-> FALSE, err |-> NilErr]
StopProcessing == [CancelRequest |-> TRUE, RequeueRequest |-> FALSE, err |-> NilErr]
RequeueWithError(e) == [CancelRequest |-> FALSE, RequeueRequest |-> TRUE, err |-> e]

conflictErr == [kind |-> "Conflict", text |-> <<"Operation cannot be fulfilled">>]
notFoundErr == [kind |-> "NotFound", text |-> <<"Resource Not Found">>]
notSignedErr == [kind |-> "NotSigned", text |-> <<"Not processing the pipelineRun because it's not yet signed with Chains">>]

\* variant: the error text leaves out the PLR name
MissingInfoInPipelineRunError_NoName(key, plrName) ==
  [kind |-> "MissingInfoInPipelineRun", text |-> <<"Missing info ", key>>]

MissingInfoInPipelineRunError(key, plrName) ==
  [kind |-> "MissingInfoInPipelineRun",
   text |-> <<"Missing info ", key, " from pipelinerun ", plrName>>]

\* variant: the error leaves out the image reference
NewInvalidImageDigestError_NoImage(componentName, image) ==
  [kind |-> "InvalidImageDigest",
   text |-> <<"invalid digest for component ", componentName>>]

NewInvalidImageDigestError(componentName, image) ==
  [kind |-> "InvalidImageDigest",
   text |-> <<"invalid digest for component ", componentName, " image ">> \o image]

VARIABLES
  plr,        \* store: the build PLR objects
  snapshots,  \* store: the Snapshot objects
  created,    \* store: number of Snapshots ever created
  pc,         \* worker of each PLR: position inside EnsureSnapshotExists
  pass,       \* worker of each PLR: locals of the running pass
  orphaned,   \* of each PLR: the last pass of EnsureSnapshotExists that
              \* returned found the PLR's annotation naming no Snapshot
  conflicts,  \* conflicts answered so far
  derived,    \* a derivation applied to a PLR outside a pass: input and output
  components, \* store: container image of each Component of the application
  gitlab,     \* the GitLab reporter, the provider it writes to, its last call
  group       \* the builds and Snapshots of PR groups, the adapter's last call

vars == <<plr, snapshots, created, pc, pass, orphaned, conflicts, derived, components, gitlab, group>>
store == <<plr, snapshots, created>>
worker == <<pc, pass, orphaned>>

NoSnapshot == 0
NoAnnotation == [status |-> "none", message |-> <<>>]

(***************************************************************************)
(* The build PLR as the store keeps it.                                    *)
(*   exists     the object is in the store                                 *)
(*   cond       status of the Succeeded condition                          *)
(*   deleting   a deletion timestamp is set                                *)
(*   signed     the chains.tekton.dev/signed annotation is present         *)
(*   results    the PLR results                                            *)
(*   snapshot   the Snapshot-name annotation (NoSnapshot: absent)          *)
(*   createSnapshot  the create-snapshot annotation                        *)
(*   finalizer  the sentinel finalizer is held                             *)
(*   labels, annotations  the other metadata, key to value                 *)
(* A Snapshot in the store: its generated name, its back-reference label   *)
(* buildPipelineRun, and by, the worker (PLR name) that created it or      *)
(* "foreign".                                                              *)
(***************************************************************************)
buildPipelineRun ==
  [exists |-> TRUE, cond |-> "Unknown", deleting |-> FALSE, signed |-> FALSE,
   results |-> NoResults, snapshot |-> NoSnapshot,
   createSnapshot |-> NoAnnotation, finalizer |-> FALSE,
   labels |-> PipelineRunLabels, annotations |-> PipelineRunAnnotations]

HasPipelineRunSucceeded(o) == o.cond = "True"
HasPipelineRunFinished(o) == o.cond # "Unknown"

(***************************************************************************)
(* Snapshot derivation.                                                    *)
(***************************************************************************)
\* length of the encoded part of a digest
EncodedLen(hex) == Len(hex)

\* encoded length each registered digest algorithm requires
DigestAlgorithms == [a \in {"sha256"} |-> 64]

\* a digest is well formed as algorithm:encoded with the algorithm's length
ValidateImageDigest(d) ==
  /\ d.sep
  /\ d.alg \in DOMAIN DigestAlgorithms
  /\ EncodedLen(d.hex) = DigestAlgorithms[d.alg]

DigestText(d) == IF d.sep THEN <<d.alg, ":", d.hex>> ELSE <<d.alg>>

\* the image reference, imageURL@digest
ImageReference(url, d) == <<url, "@">> \o DigestText(d)

\* image keys are read before the digest is used
getImagePullSpecFromPipelineRun(o, plrName) ==
  IF "IMAGE_URL" \notin o.results.keys
  THEN [err |-> MissingInfoInPipelineRunError("IMAGE_URL", plrName), image |-> <<>>]
  ELSE IF "IMAGE_DIGEST" \notin o.results.keys
  THEN [err |-> MissingInfoInPipelineRunError("IMAGE_DIGEST", plrName), image |-> <<>>]
  ELSE [err |-> NilErr, image |-> ImageReference(SampleImageWithoutDigest, o.results.digest)]

getComponentSourceFromPipelineRun(o, plrName) ==
  IF "CHAINS-GIT_URL" \notin o.results.keys
  THEN MissingInfoInPipelineRunError("CHAINS-GIT_URL", plrName)
  ELSE IF "CHAINS-GIT_COMMIT" \notin o.results.keys
  THEN MissingInfoInPipelineRunError("CHAINS-GIT_COMMIT", plrName)
  ELSE NilErr

\* the digest of an image reference: what follows "@", split at the colon
ParseImageDigest(image) ==
  LET at == CHOOSE i \in DOMAIN image : image[i] = "@"
      tail == SubSeq(image, at + 1, Len(image))
  IN [alg |-> IF Len(tail) >= 1 THEN tail[1] ELSE "",
      sep |-> Len(tail) >= 2 /\ tail[2] = ":",
      hex |-> IF Len(tail) >= 3 THEN tail[3] ELSE ""]

\* the image reference is qualified by a well-formed digest
HasValidDigest(image) ==
  /\ \E i \in DOMAIN image : image[i] = "@"
  /\ ValidateImageDigest(ParseImageDigest(image))

\* the components of the application, as the loader returns them
GetAllApplicationComponents(application) ==
  SelectSeq(ApplicationComponentNames, LAMBDA c : c \in DOMAIN components)

\* variant: every other component is reused whatever its image
PrepareSnapshot_KeepAll(application, applicationComponents, component, newContainerImage) ==
  <<[name |-> component, containerImage |-> newContainerImage]>> \o
  [i \in DOMAIN SelectSeq(applicationComponents, LAMBDA c : c # component) |->
     LET c == SelectSeq(applicationComponents, LAMBDA d : d # component)[i]
     IN [name |-> c, containerImage |-> components[c]]]

\* component entries of a Snapshot: the built component with its new image,
\* then every other component whose current image has a valid digest
PrepareSnapshot(application, applicationComponents, component, newContainerImage) ==
  LET reused == SelectSeq(applicationComponents,
                  LAMBDA c : c # component /\ components[c] # emptyImage
                             /\ HasValidDigest(components[c]))
  IN <<[name |-> component, containerImage |-> newContainerImage]>> \o
     [i \in DOMAIN reused |-> [name |-> reused[i], containerImage |-> components[reused[i]]]]

\* variant: the back-reference label is left empty
SnapshotLabels_NoBackReference(plrName, application) ==
  (BuildPipelineRunNameLabel :> "") @@ (ApplicationNameLabel :> application)

\* labels of a derived Snapshot: the back-reference to the build PLR, the application
SnapshotLabels(plrName, application) ==
  (BuildPipelineRunNameLabel :> plrName) @@ (ApplicationNameLabel :> application)

\* a key begins with the prefix
HasPrefix(key, prefix) == Len(key) >= 1 /\ key[1] = prefix

\* the prefixes whose keys are copied from the build PLR as they are
CopiedPrefixes == {"build.appstudio", "custom.appstudio.openshift.io"}

\* the key after the prefix of the pipelines-as-code keys of a PLR is
\* replaced by the Snapshot's pipelines-as-code prefix
WithPrefixReplacement(key) == <<PipelinesAsCodePrefix>> \o Tail(key)

\* variant: a deny-list, every key is copied but the pipelines.* ones
CopyByPrefix_DenyList(source) ==
  LET kept == {k \in DOMAIN source : ~HasPrefix(k, "pipelines.appstudio.openshift.io")}
  IN [k \in kept |-> source[k]]

\* the entries of a PLR's labels or annotations that reach the Snapshot
CopyByPrefix(source) ==
  LET pac == {k \in DOMAIN source : HasPrefix(k, "pipelinesascode.tekton.dev")}
      kept == {k \in DOMAIN source : \E x \in CopiedPrefixes : HasPrefix(k, x)}
  IN [k \in {WithPrefixReplacement(j) : j \in pac} |->
        source[CHOOSE j \in pac : WithPrefixReplacement(j) = k]] @@
     [k \in kept |-> source[k]]

\* variant: the component and the start time of the build are left out
CopySnapshotLabelsAndAnnotations_Anonymous(application, labels, componentName, source) ==
  [labels |-> CopyByPrefix(source.labels) @@
              (SnapshotTypeLabel :> "component") @@
              (ApplicationNameLabel :> application) @@ labels,
   annotations |-> CopyByPrefix(source.annotations)]

\* labels and annotations of a derived Snapshot: those the derivation sets,
\* then those copied from the build PLR
CopySnapshotLabelsAndAnnotations(application, labels, componentName, source) ==
  [labels |-> CopyByPrefix(source.labels) @@
              (SnapshotTypeLabel :> "component") @@
              (SnapshotComponentLabel :> componentName) @@
              (ApplicationNameLabel :> application) @@ labels,
   annotations |-> CopyByPrefix(source.annotations) @@
                   (BuildPipelineRunStartTime :> "StartTime")]

NoSnapshotSpec ==
  [components |-> <<>>, labels |-> SnapshotLabels("", ""), annotations |-> <<>>]

\* the Snapshot derived from a build PLR, or the error that prevents it
prepareSnapshotForPipelineRun(o, plrName, component, application) ==
  LET pull == getImagePullSpecFromPipelineRun(o, plrName)
      src == getComponentSourceFromPipelineRun(o, plrName)
  IN IF pull.err # NilErr THEN [err |-> pull.err, snapshot |-> NoSnapshotSpec]
     ELSE IF src # NilErr THEN [err |-> src, snapshot |-> NoSnapshotSpec]
     ELSE IF ~ValidateImageDigest(o.results.digest)
     THEN [err |-> NewInvalidImageDigestError(component, pull.image),
           snapshot |-> NoSnapshotSpec]
     ELSE [err |-> NilErr,
           snapshot |-> [components |-> PrepareSnapshot(application,
                                          GetAllApplicationComponents(application),
                                          component, pull.image),
                         annotations |-> CopySnapshotLabelsAndAnnotations(application,
                                          SnapshotLabels(plrName, application),
                                          component, o).annotations,
                         labels |-> CopySnapshotLabelsAndAnnotations(application,
                                          SnapshotLabels(plrName, application),
                                          component, o).labels]]

IsValidationError(e) == e.kind \in {"MissingInfoInPipelineRun", "InvalidImageDigest"}

\* variant: the failure record carries no error text
CreateSnapshotAnnotation_NoError(e) ==
  [status |-> "failed", message |-> <<"Failed to create snapshot. Error: ">>]

\* the create-snapshot annotation recording a failed derivation
CreateSnapshotAnnotation(e) ==
  [status |-> "failed", message |-> <<"Failed to create snapshot. Error: ">> \o e.text]

\* t occurs in m as a contiguous run
ContainSubstring(m, t) ==
  \E i \in 0..(Len(m) - Len(t)) : \A j \in 1..Len(t) : m[i + j] = t[j]

(***************************************************************************)
(* Store queries.                                                          *)
(***************************************************************************)
\* creation timestamp of a Snapshot; names are generated in creation order
CreationTimestamp(n) == n

\* variant: the Snapshots of the component, whatever PLR they point back at
GetAllSnapshotsForBuildPipelineRun_OfComponent(p) == snapshots

\* Snapshots whose back-reference label names the PLR
GetAllSnapshotsForBuildPipelineRun(p) == {s \in snapshots : s.buildPipelineRun = p}

\* of several Snapshots, the one created first
EarliestSnapshot(ss) ==
  CHOOSE s \in ss : \A t \in ss : CreationTimestamp(s.name) <= CreationTimestamp(t.name)

\* the name generated for the next Snapshot
GenerateName == created + 1

\* locals of a pass of EnsureSnapshotExists
\*   seen    the PLR object the framework delivered to the call
\*   wrote   the store writes the call has made so far
NoPass ==
  [op |-> "none", branch |-> "none", seen |-> buildPipelineRun, cerr |-> NilErr,
   target |-> NoSnapshot, result |-> ContinueProcessing, wrote |-> {}]

\* locals of a fresh call of EnsureSnapshotExists on the delivered object o
NewPass(o) == [NoPass EXCEPT !.op = "EnsureSnapshotExists", !.seen = o]

NoDerivation ==
  [plrName |-> "", results |-> NoResults, done |-> FALSE,
   labels |-> PipelineRunLabels, annotations |-> PipelineRunAnnotations,
   out |-> [err |-> NilErr, snapshot |-> NoSnapshotSpec]]

(***************************************************************************)
(* The GitLab reporter.                                                    *)
(***************************************************************************)
sourceProjectID == "123"
targetProjectID == "456"
forkProjectID == "0"
mergeRequest == "45"
snapshotSample == "snapshot-sample"

PipelineAsCodeRepoURLAnnotation == "pac.test.appstudio.openshift.io/repo-url"
PipelineAsCodeSHALabel == "pac.test.appstudio.openshift.io/sha"
PipelineAsCodeTargetProjectIDAnnotation == "pac.test.appstudio.openshift.io/target-project-id"
PipelineAsCodeSourceProjectIDAnnotation == "pac.test.appstudio.openshift.io/source-project-id"
PipelineAsCodePullRequestAnnotation == "pac.test.appstudio.openshift.io/pull-request"

\* the labels and annotations Initialize cannot do without, in the order read
RequiredMetadata ==
  <<PipelineAsCodeRepoURLAnnotation, PipelineAsCodeSHALabel,
    PipelineAsCodeTargetProjectIDAnnotation, PipelineAsCodeSourceProjectIDAnnotation>>

\* the Snapshot of the reporter's tests: the metadata keys it carries and the
\* values of its project identifiers
hasSnapshot ==
  [metadata |-> {RequiredMetadata[i] : i \in DOMAIN RequiredMetadata}
                  \cup {PipelineAsCodePullRequestAnnotation},
   source |-> sourceProjectID, target |-> targetProjectID]

IntegrationTestStatusValues ==
  {"Pending", "InProgress", "EnvironmentProvisionError", "DeploymentError",
   "Deleted", "TestPassed", "TestFail", "TestInvalid", "BuildPLRInProgress",
   "BuildPLRFailed", "SnapshotCreationFailed", "GroupSnapshotCreationFailed"}

\* a value of the status type outside the declared ones
UndeclaredStatus == "IntegrationTestStatus(0)"

\* variant: BuildPLRFailed has no entry in the table
GitlabCommitStates_NoBuildPLRFailed ==
  [t \in IntegrationTestStatusValues \ {"BuildPLRFailed"} |->
     CASE t \in {"EnvironmentProvisionError", "DeploymentError", "TestFail", "TestInvalid"}
            -> "failed"
       [] t = "TestPassed" -> "success"
       [] t = "InProgress" -> "running"
       [] t \in {"Pending", "BuildPLRInProgress"} -> "pending"
       [] OTHER -> "canceled"]

\* variant: a build in progress is shown as running
GitlabCommitStates_BuildRunning ==
  [t \in IntegrationTestStatusValues |->
     CASE t \in {"EnvironmentProvisionError", "DeploymentError", "TestFail", "TestInvalid"}
            -> "failed"
       [] t = "TestPassed" -> "success"
       [] t \in {"InProgress", "BuildPLRInProgress"} -> "running"
       [] t = "Pending" -> "pending"
       [] OTHER -> "canceled"]

\* the GitLab commit state of each integration test status
GitlabCommitStates ==
  ("EnvironmentProvisionError" :> "failed") @@
  ("DeploymentError" :> "failed") @@
  ("Deleted" :> "canceled") @@
  ("TestPassed" :> "success") @@
  ("TestFail" :> "failed") @@
  ("InProgress" :> "running") @@
  ("Pending" :> "pending") @@
  ("TestInvalid" :> "failed") @@
  ("BuildPLRInProgress" :> "pending") @@
  ("BuildPLRFailed" :> "canceled") @@
  ("SnapshotCreationFailed" :> "canceled") @@
  ("GroupSnapshotCreationFailed" :> "canceled")

NoCommitState == "none"

GenerateGitlabCommitState(teststatus) ==
  IF teststatus \in DOMAIN GitlabCommitStates
  THEN [state |-> GitlabCommitStates[teststatus], err |-> NilErr]
  ELSE [state |-> NoCommitState,
        err |-> [kind |-> "UnsupportedStatus",
                 text |-> <<"IntegrationTestStatus ", teststatus, " is not supported">>]]

FullNames == {"fullname/scenario1", "fullname/scenario2"}

\* the report of a scenario's status for the Snapshot of the tests
TestReport(scenario, teststatus) ==
  [FullName |-> IF scenario = "scenario1" THEN "fullname/scenario1" ELSE "fullname/scenario2",
   ScenarioName |-> scenario, SnapshotName |-> snapshotSample, Status |-> teststatus]

\* the last call on the reporter: its inputs, the requests it sent to the
\* provider in their order, what it found there, its log and its result;
\* failed is the position of the request the provider answered with an
\* error (0: none)
NoCall ==
  [op |-> "none", report |-> TestReport("scenario1", "Pending"), state |-> NoCommitState,
   existingCommitStatus |-> NoCommitState, existingNote |-> FALSE,
   requests |-> <<>>, failed |-> 0, log |-> {}, statusCode |-> 0, err |-> NilErr]

\* the reporter (snapshot, initialized), the provider (statuses: state of the
\* commit status of each name; notes of the merge request), and the last call
NoReporter ==
  [snapshot |-> hasSnapshot, initialized |-> FALSE,
   statuses |-> [n \in FullNames |-> NoCommitState], notes |-> <<>>,
   last |-> NoCall]

(***************************************************************************)
(* PR groups: the build PLRs and component Snapshots that carry group      *)
(* metadata, as the adapter's group operations see them.                   *)
(***************************************************************************)
prGroup == "feature1"
prGroupSha == "feature1hash"
sourceBranch == "sourceBranch"
sourceBranchSha == "sourceBranchhash"
hasSnapshotName == "snapshot-sample"
hasComSnapshot2Name == "hasComSnapshot2Name"
olderSnapshotName == "snapshot-sample-older"

\* absent label or annotation
NoValue == ""

\* the source branches of the builds
Branches == {sourceBranch, prGroup}

\* the hash of a branch name: a fixed digest for each name, shorter than any
\* label limit and different from the name
ComputeGroupHash(branch) ==
  CASE branch = prGroup -> prGroupSha
    [] branch = sourceBranch -> sourceBranchSha

\* variant: the group is taken from the PLR's own name
GetPRGroupFromBuildPLR_PerPipelineRun(o, plrName) ==
  [prGroupHash |-> IF plrName = buildPipelineRunName THEN prGroupSha ELSE sourceBranchSha,
   prGroup |-> plrName]

\* the group metadata of a build PLR: the hash of its source branch as the
\* label, the source branch itself as the annotation
GetPRGroupFromBuildPLR(o, plrName) ==
  [prGroupHash |-> ComputeGroupHash(o.sourceBranch), prGroup |-> o.sourceBranch]

\* a build PLR of a component, triggered for a branch, as the build engine
\* creates it:
\*   pullRequest     the pull-request label of Pipelines as Code is present
\*   prGroupHash, prGroup    the group-hash label, the group-name annotation
\*   prGroupCreation  the failure notice of the group
\*   snapshot        the Snapshot-name annotation is present
\*   createSnapshot  the create-snapshot annotation reports a failure
\*   report          the report annotation
groupPipelineRun(component, branch, pullRequest) ==
  [component |-> component, sourceBranch |-> branch, pullRequest |-> pullRequest,
   cond |-> "Unknown", prGroupHash |-> NoValue, prGroup |-> NoValue,
   prGroupCreation |-> <<>>, snapshot |-> FALSE, createSnapshot |-> FALSE,
   report |-> NoValue]

\* a component Snapshot of a PR group
groupSnapshot(component, branch, created_) ==
  [component |-> component, prGroupHash |-> ComputeGroupHash(branch),
   prGroup |-> branch, created |-> created_, prGroupCreation |-> <<>>]

\* variant: the notice leaves out the component
buildPLRFailureMsg_NoComponent(plrName, component, groupName) ==
  <<"build PLR ", plrName, " failed so it can't be added to the group Snapshot for PR group ",
    groupName>>

\* the failure notice written to the Snapshots and builds of the group
buildPLRFailureMsg(plrName, component, groupName) ==
  <<"build PLR ", plrName, " failed for component ", component,
    " so it can't be added to the group Snapshot for PR group ", groupName>>

\* the adapter's last call on a build PLR of a group
NoGroupCall ==
  [op |-> "none", plr |-> NoValue, seen |-> groupPipelineRun(hasComp, sourceBranch, TRUE),
   result |-> ContinueProcessing, patched |-> FALSE,
   targets |-> {}, written |-> {}, log |-> {},
   status |-> NoValue, reported |-> <<>>, opened |-> {}]

NoGroupState ==
  [plrs |-> [p \in {} |-> groupPipelineRun(hasComp, sourceBranch, TRUE)],
   snaps |-> [n \in {} |-> groupSnapshot(hasComp, prGroup, 0)],
   opened |-> {},
   last |-> NoGroupCall]

\* the Component objects of the fixtures
ComponentFixtures == (hasComp :> invalidImage) @@ (hasComp2 :> emptyImage)

Init ==
  /\ gitlab = NoReporter
  /\ group = NoGroupState
  /\ components = ComponentFixtures
  /\ plr = [p \in {buildPipelineRunName} |-> buildPipelineRun]
  /\ snapshots = {}
  /\ created = 0
  /\ pc = [p \in {buildPipelineRunName} |-> "idle"]
  /\ pass = [p \in {buildPipelineRunName} |-> NoPass]
  /\ orphaned = [p \in {buildPipelineRunName} |-> FALSE]
  /\ conflicts = 0
  /\ derived = NoDerivation

(***************************************************************************)
(* The world around the adapter: the build engine, Chains, users, the      *)
(* store's garbage collection, other Snapshot writers, the Snapshot        *)
(* pruning job.                                                            *)
(***************************************************************************)
\* the build ends: succeeded with some results, or failed
PipelineRunCompletes(p) ==
  /\ plr[p].exists /\ plr[p].cond = "Unknown"
  /\ \E c \in {"True", "False"} :
       \E r \in (IF c = "True" THEN BuildResults ELSE {ResultsNoDigest}) :
         plr' = [plr EXCEPT ![p].cond = c, ![p].results = r]
  /\ UNCHANGED <<snapshots, created, worker, conflicts, derived, components, gitlab, group>>

\* Chains signs the succeeded PLR
ChainsSigns(p) ==
  /\ plr[p].exists /\ plr[p].cond = "True" /\ ~plr[p].signed
  /\ plr' = [plr EXCEPT ![p].signed = TRUE]
  /\ UNCHANGED <<snapshots, created, worker, conflicts, derived, components, gitlab, group>>

\* a user deletes the PLR: the store sets the deletion timestamp
DeletePipelineRun(p) ==
  /\ plr[p].exists /\ ~plr[p].deleting
  /\ plr' = [plr EXCEPT ![p].deleting = TRUE]
  /\ UNCHANGED <<snapshots, created, worker, conflicts, derived, components, gitlab, group>>

\* the store drops a PLR that is being deleted and holds no finalizer
StoreRemovesPipelineRun(p) ==
  /\ plr[p].exists /\ plr[p].deleting /\ ~plr[p].finalizer
  /\ plr' = [plr EXCEPT ![p].exists = FALSE]
  /\ UNCHANGED <<snapshots, created, worker, conflicts, derived, components, gitlab, group>>

\* another writer creates a Snapshot that back-references the PLR
ForeignSnapshot(p) ==
  /\ created < MaxSnapshots
  /\ Cardinality({s \in snapshots : s.by = "foreign"}) < MaxForeign
  /\ HasPipelineRunSucceeded(plr[p])
  /\ snapshots' = snapshots \cup
       {[name |-> GenerateName, buildPipelineRun |-> p, by |-> "foreign"]}
  /\ created' = created + 1
  /\ UNCHANGED <<plr, worker, conflicts, derived, components, gitlab, group>>

\* the pruning job deletes a Snapshot
PruneSnapshot(s) ==
  /\ s \in snapshots
  /\ snapshots' = snapshots \ {s}
  /\ UNCHANGED <<plr, created, worker, conflicts, derived, components, gitlab, group>>

(***************************************************************************)
(* EnsurePipelineIsFinalized.                                              *)
(***************************************************************************)
\* variant: the finalizer is wanted whatever the deletion timestamp
TargetFinalizer_Always(o) == TRUE

\* the finalizer state the operation drives the PLR to
TargetFinalizer(o) == ~o.deleting

\* variant: the call cancels the reconciliation
EnsurePipelineIsFinalizedResult_Stop == StopProcessing

EnsurePipelineIsFinalizedResult == ContinueProcessing

\* one call: at most one write to the PLR, then the result is returned
EnsurePipelineIsFinalized(p) ==
  /\ pc[p] = "idle" /\ plr[p].exists
  /\ LET o == plr[p]
         w == IF TargetFinalizer(o) # o.finalizer THEN {"finalizer"} ELSE {}
     IN /\ plr' = [plr EXCEPT ![p].finalizer =
                     IF "finalizer" \in w THEN ~o.finalizer ELSE o.finalizer]
        /\ pc' = [pc EXCEPT ![p] = "return"]
        /\ pass' = [pass EXCEPT ![p] =
                      [NoPass EXCEPT !.op = "EnsurePipelineIsFinalized",
                                     !.seen = o,
                                     !.branch = IF o.deleting THEN "deleting"
                                                ELSE IF o.finalizer THEN "held"
                                                ELSE "missing",
                                     !.result = EnsurePipelineIsFinalizedResult,
                                     !.wrote = w]]
  /\ UNCHANGED <<snapshots, created, orphaned, conflicts, derived, components, gitlab, group>>

(***************************************************************************)
(* EnsureSnapshotExists, one store call per step.                          *)
(*   idle -> [fetch -> [create ->] [annotate | failannotate ->]            *)
(*            [finalizer ->]] return -> idle                               *)
(***************************************************************************)
\* variants of the results of the branches
annotatedResult_Stop == StopProcessing
moreThanOneSnapshotResult_Requeue == RequeueWithError(conflictErr)
notFoundResult_Requeue == RequeueWithError(notFoundErr)
conflictResult_Continue == ContinueProcessing

\* results of the branches of a pass
notSucceededResult == ContinueProcessing
notSignedResult == RequeueWithError(notSignedErr)
annotatedResult == ContinueProcessing
existingSnapshotResult == ContinueProcessing
moreThanOneSnapshotResult == ContinueProcessing
validationErrorResult == StopProcessing
createdResult == StopProcessing
notFoundResult == ContinueProcessing
conflictResult == RequeueWithError(conflictErr)

Goto(p, l, ps) ==
  /\ pc' = [pc EXCEPT ![p] = l]
  /\ pass' = [pass EXCEPT ![p] = ps]
  /\ UNCHANGED orphaned

\* variant: only a build that failed gives up the finalizer
canRemoveFinalizer_FinishedOnly(o) == HasPipelineRunFinished(o)

\* variant: every build that has not succeeded gives up the finalizer
canRemoveFinalizer_NotSucceeded(o) == TRUE

\* a PLR that has not succeeded gives up the finalizer when the build failed,
\* or when the PLR is being deleted while the engine still reports it running
canRemoveFinalizer(o) == HasPipelineRunFinished(o) \/ o.deleting

\* variant: every succeeded PLR is taken for signed
HasChainsSignedAnnotation_Always(o) == TRUE

\* the PLR carries the chains.tekton.dev/signed annotation
HasChainsSignedAnnotation(o) == o.signed

\* entry: the gates, decided on the PLR the framework delivered
Begin(p) ==
  /\ pc[p] = "idle" /\ plr[p].exists
  /\ LET o == plr[p] IN
       IF ~HasPipelineRunSucceeded(o)
       THEN IF canRemoveFinalizer(o)
            THEN Goto(p, "fetch", [NewPass(o) EXCEPT !.branch = "notSucceeded",
                                                 !.result = notSucceededResult])
            ELSE Goto(p, "return", [NewPass(o) EXCEPT !.branch = "running",
                                                  !.result = notSucceededResult])
       ELSE IF ~HasChainsSignedAnnotation(o)
       THEN Goto(p, "return", [NewPass(o) EXCEPT !.branch = "notSigned",
                                             !.result = notSignedResult])
       ELSE IF o.snapshot # NoSnapshot
       THEN Goto(p, "fetch", [NewPass(o) EXCEPT !.branch = "annotated",
                                            !.result = annotatedResult])
       ELSE Goto(p, "fetch", [NewPass(o) EXCEPT !.branch = "lookup"])
  /\ UNCHANGED <<store, conflicts, derived, components, gitlab, group>>

\* variant: a pass that cannot resolve the annotation goes on to the scan of
\* the back-reference label
staleAnnotationBranch_Rescan == "lookup"

\* the branch of a pass that cannot resolve the Snapshot the annotation names
staleAnnotationBranch == "orphaned"

\* variant: the finalizer is removed before the Snapshot is created
stepAfterDerivation_Finalizer == "finalizer"

\* the store call a pass makes first once it has derived the Snapshot
stepAfterDerivation == "create"

\* what the pass does once GetPipelineRun has answered with the PLR
AfterGetPipelineRun(p, ps) ==
  LET o == plr[p]
      existing == GetAllSnapshotsForBuildPipelineRun(p)
      d == prepareSnapshotForPipelineRun(o, p, hasComp, hasApp)
  IN IF ps.branch = "notSucceeded" THEN Goto(p, "finalizer", ps)
     ELSE IF ps.branch = "annotated" /\ \E s \in snapshots : s.name = o.snapshot
     THEN Goto(p, "finalizer", ps)
     ELSE IF ps.branch = "annotated" /\ staleAnnotationBranch = "orphaned"
     THEN Goto(p, "return", [ps EXCEPT !.branch = staleAnnotationBranch,
                                       !.result = notFoundResult])
     ELSE IF Cardinality(existing) > 1
     THEN Goto(p, "annotate", [ps EXCEPT !.branch = "moreThanOne",
                                         !.target = EarliestSnapshot(existing).name,
                                         !.result = moreThanOneSnapshotResult])
     ELSE IF Cardinality(existing) = 1
     THEN Goto(p, "annotate", [ps EXCEPT !.branch = "existing",
                                         !.target = EarliestSnapshot(existing).name,
                                         !.result = existingSnapshotResult])
     ELSE IF d.err # NilErr
     THEN Goto(p, "failannotate", [ps EXCEPT !.branch = "validationError",
                                             !.cerr = d.err,
                                             !.result = validationErrorResult])
     ELSE Goto(p, stepAfterDerivation,
               [ps EXCEPT !.branch = "create", !.result = createdResult])

\* the pass reads the PLR back from the store
GetPipelineRun(p) ==
  /\ pc[p] = "fetch"
  /\ \/ /\ ~plr[p].exists
        /\ Goto(p, "return", [pass[p] EXCEPT !.branch = "notFound",
                                             !.result = notFoundResult])
        /\ UNCHANGED conflicts
     \/ /\ plr[p].exists
        /\ conflicts < MaxConflicts
        /\ conflicts' = conflicts + 1
        /\ Goto(p, "return", [pass[p] EXCEPT !.branch = "conflict",
                                             !.result = conflictResult])
     \/ /\ plr[p].exists
        /\ AfterGetPipelineRun(p, pass[p])
        /\ UNCHANGED conflicts
  /\ UNCHANGED <<store, derived, components, gitlab, group>>

\* the derived Snapshot is created in the store
CreateSnapshot(p) ==
  /\ pc[p] = "create"
  /\ created < MaxSnapshots
  /\ LET d == prepareSnapshotForPipelineRun(plr[p], p, hasComp, hasApp) IN
       snapshots' = snapshots \cup
         {[name |-> GenerateName,
           buildPipelineRun |-> d.snapshot.labels[BuildPipelineRunNameLabel],
           by |-> p]}
  /\ created' = created + 1
  /\ Goto(p, "annotate", [pass[p] EXCEPT !.target = GenerateName,
                                         !.wrote = @ \cup {"Snapshot"}])
  /\ UNCHANGED <<plr, conflicts, derived, components, gitlab, group>>

\* a write to a PLR that is gone ends the pass
PipelineRunGone(p) ==
  /\ plr' = plr
  /\ Goto(p, "return", [pass[p] EXCEPT !.branch = "notFound", !.result = notFoundResult])

\* variant: the annotation is not written
WithSnapshotAnnotation_Dropped(o, name) == o

\* the PLR object with its Snapshot-name annotation set
WithSnapshotAnnotation(o, name) == [o EXCEPT !.snapshot = name]

\* the PLR is annotated with the Snapshot name
annotateBuildPipelineRunWithSnapshot(p) ==
  /\ pc[p] = "annotate"
  /\ IF plr[p].exists
     THEN /\ plr' = [plr EXCEPT ![p] = WithSnapshotAnnotation(@, pass[p].target)]
          /\ Goto(p, "finalizer", [pass[p] EXCEPT !.wrote = @ \cup {"annotation"}])
     ELSE PipelineRunGone(p)
  /\ UNCHANGED <<snapshots, created, conflicts, derived, components, gitlab, group>>

\* the PLR is annotated with the failure record of the derivation
AnnotateBuildPipelineRunWithCreateSnapshotAnnotation(p) ==
  /\ pc[p] = "failannotate"
  /\ IF plr[p].exists
     THEN /\ plr' = [plr EXCEPT ![p].createSnapshot = CreateSnapshotAnnotation(pass[p].cerr)]
          /\ Goto(p, "finalizer", [pass[p] EXCEPT !.wrote = @ \cup {"createSnapshot"}])
     ELSE PipelineRunGone(p)
  /\ UNCHANGED <<snapshots, created, conflicts, derived, components, gitlab, group>>

\* last write of a pass: the finalizer is removed
RemoveFinalizerFromPipelineRun(p) ==
  /\ pc[p] = "finalizer"
  /\ IF plr[p].exists
     THEN /\ plr' = [plr EXCEPT ![p].finalizer = FALSE]
          /\ Goto(p, "return", [pass[p] EXCEPT !.wrote =
                                  IF plr[p].finalizer THEN @ \cup {"finalizer"} ELSE @])
     ELSE PipelineRunGone(p)
  /\ UNCHANGED <<snapshots, created, conflicts, derived, components, gitlab, group>>

\* the operation returns its result to the framework
Return(p) ==
  /\ pc[p] = "return"
  /\ pc' = [pc EXCEPT ![p] = "idle"]
  /\ pass' = [pass EXCEPT ![p] = NoPass]
  /\ orphaned' = IF pass[p].op = "EnsureSnapshotExists"
                 THEN [orphaned EXCEPT ![p] = (pass[p].branch = "orphaned")]
                 ELSE orphaned
  /\ UNCHANGED <<store, conflicts, derived, components, gitlab, group>>

\* the process dies between two store calls; the locals of the pass are lost
Crash(p) ==
  /\ pc[p] \in {"fetch", "create", "annotate", "failannotate", "finalizer"}
  /\ pc' = [pc EXCEPT ![p] = "idle"]
  /\ pass' = [pass EXCEPT ![p] = NoPass]
  /\ UNCHANGED <<store, orphaned, conflicts, derived, components, gitlab, group>>

Next ==
  \/ \E p \in DOMAIN plr : PipelineRunCompletes(p)
  \/ \E p \in DOMAIN plr : ChainsSigns(p)
  \/ \E p \in DOMAIN plr : DeletePipelineRun(p)
  \/ \E p \in DOMAIN plr : StoreRemovesPipelineRun(p)
  \/ \E p \in DOMAIN plr : ForeignSnapshot(p)
  \/ \E s \in snapshots : PruneSnapshot(s)
  \/ \E p \in DOMAIN plr : EnsurePipelineIsFinalized(p)
  \/ \E p \in DOMAIN plr : Begin(p)
  \/ \E p \in DOMAIN plr : GetPipelineRun(p)
  \/ \E p \in DOMAIN plr : CreateSnapshot(p)
  \/ \E p \in DOMAIN plr : annotateBuildPipelineRunWithSnapshot(p)
  \/ \E p \in DOMAIN plr : AnnotateBuildPipelineRunWithCreateSnapshotAnnotation(p)
  \/ \E p \in DOMAIN plr : RemoveFinalizerFromPipelineRun(p)
  \/ \E p \in DOMAIN plr : Return(p)
  \/ \E p \in DOMAIN plr : Crash(p)

Spec == Init /\ [][Next]_vars

TypeOK ==
  /\ \A p \in DOMAIN plr :
       pc[p] \in {"idle", "fetch", "create", "annotate", "failannotate", "finalizer", "return"}
  /\ created <= MaxSnapshots
  /\ conflicts <= MaxConflicts

(***************************************************************************)
(* The adapter on a PLR that nobody deletes, with no other Snapshot writer *)
(* and no pruning: the build engine and Chains act, the store answers a    *)
(* bounded number of conflicts, the process may crash, and the framework   *)
(* invokes the operations again and again.                                 *)
(***************************************************************************)
NextReconcile ==
  \/ \E p \in DOMAIN plr : PipelineRunCompletes(p)
  \/ \E p \in DOMAIN plr : ChainsSigns(p)
  \/ \E p \in DOMAIN plr : EnsurePipelineIsFinalized(p)
  \/ \E p \in DOMAIN plr : Begin(p)
  \/ \E p \in DOMAIN plr : GetPipelineRun(p)
  \/ \E p \in DOMAIN plr : CreateSnapshot(p)
  \/ \E p \in DOMAIN plr : annotateBuildPipelineRunWithSnapshot(p)
  \/ \E p \in DOMAIN plr : AnnotateBuildPipelineRunWithCreateSnapshotAnnotation(p)
  \/ \E p \in DOMAIN plr : RemoveFinalizerFromPipelineRun(p)
  \/ \E p \in DOMAIN plr : Return(p)
  \/ \E p \in DOMAIN plr : Crash(p)

\* the framework invokes each operation again and again, and a pass that is
\* started over often enough gets each of its store calls answered
FairReconcile ==
  /\ SF_vars(EnsurePipelineIsFinalized(buildPipelineRunName))
  /\ SF_vars(Begin(buildPipelineRunName))
  /\ SF_vars(GetPipelineRun(buildPipelineRunName))
  /\ SF_vars(CreateSnapshot(buildPipelineRunName))
  /\ SF_vars(annotateBuildPipelineRunWithSnapshot(buildPipelineRunName))
  /\ SF_vars(AnnotateBuildPipelineRunWithCreateSnapshotAnnotation(buildPipelineRunName))
  /\ SF_vars(RemoveFinalizerFromPipelineRun(buildPipelineRunName))
  /\ SF_vars(Return(buildPipelineRunName))

SpecReconcile == Init /\ [][NextReconcile]_vars /\ FairReconcile

(***************************************************************************)
(* Two build PLRs of the same component and Application, each with its own *)
(* worker; the workers' store calls interleave freely.                     *)
(***************************************************************************)
BuildPipelineRuns == {buildPipelineRunName, buildPipelineRun2Name}

InitConcurrent ==
  /\ gitlab = NoReporter
  /\ group = NoGroupState
  /\ components = ComponentFixtures
  /\ plr = [p \in BuildPipelineRuns |-> buildPipelineRun]
  /\ snapshots = {}
  /\ created = 0
  /\ pc = [p \in BuildPipelineRuns |-> "idle"]
  /\ pass = [p \in BuildPipelineRuns |-> NoPass]
  /\ orphaned = [p \in BuildPipelineRuns |-> FALSE]
  /\ conflicts = 0
  /\ derived = NoDerivation

SpecConcurrent == InitConcurrent /\ [][NextReconcile]_vars

(***************************************************************************)
(* Snapshot derivation on its own: the inputs are drawn from the result    *)
(* sets and digests below, and the derivation is applied once.             *)
(***************************************************************************)
shortDigest == [alg |-> "sha256", sep |-> TRUE, hex |-> "abc123"]
DigestSamples == {SampleDigest, invalidDigest, shortDigest}

InitDerive ==
  /\ gitlab = NoReporter
  /\ group = NoGroupState
  /\ components = ComponentFixtures
  /\ plr = [p \in {buildPipelineRunName} |-> buildPipelineRun]
  /\ snapshots = {}
  /\ created = 0
  /\ pc = [p \in {buildPipelineRunName} |-> "idle"]
  /\ pass = [p \in {buildPipelineRunName} |-> NoPass]
  /\ orphaned = [p \in {buildPipelineRunName} |-> FALSE]
  /\ conflicts = 0
  /\ \E n \in {buildPipelineRunName, buildPipelineRun2Name} :
       \E k \in SUBSET ResultKeys :
         \E d \in DigestSamples :
           derived = [NoDerivation EXCEPT !.plrName = n,
                                          !.results = [keys |-> k, digest |-> d]]

Derive ==
  /\ ~derived.done
  /\ derived' = [derived EXCEPT
                   !.done = TRUE,
                   !.out = prepareSnapshotForPipelineRun(
                             [results |-> derived.results, labels |-> derived.labels,
                              annotations |-> derived.annotations],
                             derived.plrName, hasComp, hasApp)]
  /\ UNCHANGED <<store, worker, conflicts, components, gitlab, group>>

SpecDerive == InitDerive /\ [][Derive]_vars

(***************************************************************************)
(* Snapshot derivation over the application's components: the Component    *)
(* objects and their images are drawn, the results are complete.           *)
(***************************************************************************)
ImageSamples ==
  {emptyImage, invalidImage, SampleImage, <<SampleImageWithoutDigest>>,
   <<SampleImageWithoutDigest, "@", "sha256", ":", "abc123">>,
   <<SampleImageWithoutDigest, "@", "invalidDigest">>}

InitComponents ==
  /\ gitlab = NoReporter
  /\ group = NoGroupState
  /\ plr = [p \in {buildPipelineRunName} |-> buildPipelineRun]
  /\ snapshots = {}
  /\ created = 0
  /\ pc = [p \in {buildPipelineRunName} |-> "idle"]
  /\ pass = [p \in {buildPipelineRunName} |-> NoPass]
  /\ orphaned = [p \in {buildPipelineRunName} |-> FALSE]
  /\ conflicts = 0
  /\ \E names \in SUBSET {hasComp, hasComp2} : components \in [names -> ImageSamples]
  /\ \E d \in DigestSamples :
       derived = [NoDerivation EXCEPT !.plrName = buildPipelineRunName,
                                      !.results = [keys |-> ResultKeys, digest |-> d]]

SpecComponents == InitComponents /\ [][Derive]_vars

(***************************************************************************)
(* Snapshot derivation over the PLR's metadata: the PLR carries any subset *)
(* of the labels and annotations of the fixture, the results are complete. *)
(***************************************************************************)
InitLabels ==
  /\ gitlab = NoReporter
  /\ group = NoGroupState
  /\ components = ComponentFixtures
  /\ plr = [p \in {buildPipelineRunName} |-> buildPipelineRun]
  /\ snapshots = {}
  /\ created = 0
  /\ pc = [p \in {buildPipelineRunName} |-> "idle"]
  /\ pass = [p \in {buildPipelineRunName} |-> NoPass]
  /\ orphaned = [p \in {buildPipelineRunName} |-> FALSE]
  /\ conflicts = 0
  /\ \E ls \in SUBSET DOMAIN PipelineRunLabels :
       \E as \in SUBSET DOMAIN PipelineRunAnnotations :
         derived = [NoDerivation EXCEPT
                      !.plrName = buildPipelineRunName,
                      !.results = SampleResults,
                      !.labels = [k \in ls |-> PipelineRunLabels[k]],
                      !.annotations = [k \in as |-> PipelineRunAnnotations[k]]]

SpecLabels == InitLabels /\ [][Derive]_vars

(***************************************************************************)
(* The GitLab reporter on its own: Initialize with a Snapshot, ReportStatus *)
(* with a report; the provider keeps the commit statuses and the notes.    *)
(***************************************************************************)
\* the Snapshots given to Initialize: the fixture as a merge request or a
\* push, with each source project; the fixture lacking one of the required
\* labels and annotations, or all of them
SnapshotSamples ==
  {[hasSnapshot EXCEPT !.source = src, !.metadata = @ \ pr] :
     src \in {sourceProjectID, targetProjectID, forkProjectID},
     pr \in {{}, {PipelineAsCodePullRequestAnnotation}}}
  \cup
  {[hasSnapshot EXCEPT !.metadata = @ \ {RequiredMetadata[i]}] :
     i \in DOMAIN RequiredMetadata}
  \cup
  {[hasSnapshot EXCEPT !.metadata = {PipelineAsCodePullRequestAnnotation}]}

\* the reports given to ReportStatus: every status for one scenario, a
\* running and a failed test for another
ReportSamples ==
  {TestReport("scenario1", st) : st \in IntegrationTestStatusValues \cup {UndeclaredStatus}}
  \cup {TestReport("scenario2", st) : st \in {"InProgress", "TestFail"}}

\* variant: only the repo URL is required
MissingMetadata_RepoURLOnly(snapshot) ==
  SelectSeq(<<PipelineAsCodeRepoURLAnnotation>>, LAMBDA k : k \notin snapshot.metadata)

\* the required labels and annotations the Snapshot lacks
MissingMetadata(snapshot) ==
  SelectSeq(RequiredMetadata, LAMBDA k : k \notin snapshot.metadata)

Initialize(snapshot) ==
  LET missing == MissingMetadata(snapshot)
      err == IF missing = <<>> THEN NilErr
             ELSE [kind |-> "MissingMetadata",
                   text |-> <<"failed to get value of ", missing[1], " from the snapshot">>]
  IN /\ gitlab' = [gitlab EXCEPT
                     !.snapshot = snapshot,
                     !.initialized = (err = NilErr),
                     !.last = [NoCall EXCEPT !.op = "Initialize", !.err = err]]
     /\ UNCHANGED <<store, worker, conflicts, derived, components, group>>

\* the commit status of the given name among those listed
GetExistingCommitStatus(statuses, name) == statuses[name]

\* variant: no note is ever recognised
GetExistingNoteID_None(notes, project, scenarioName, snapshotName) == {}

\* the notes of the merge request written for the scenario and the Snapshot
GetExistingNoteID(notes, project, scenarioName, snapshotName) ==
  {i \in DOMAIN notes : /\ notes[i].project = project
                        /\ notes[i].scenario = scenarioName
                        /\ notes[i].snapshot = snapshotName}

\* variant: a Snapshot is never taken for a fork
IsForked_Never(snapshot) == FALSE

\* source and target project differ: a merge request from a fork
IsForked(snapshot) == snapshot.source # snapshot.target

\* variant: a commit status is posted whatever is found
SkipCommitStatus_Never(existing, state) == FALSE

\* the commit status found is already in the running state to be reported
SkipCommitStatus(existing, state) == existing = state /\ state = "running"

\* variant: every Snapshot is taken for a merge request
IsMergeRequest_Always(snapshot) == TRUE

\* the Snapshot comes from a pull/merge request, not from a push
IsMergeRequest(snapshot) == PipelineAsCodePullRequestAnnotation \in snapshot.metadata

\* variant: the notes are looked up and written in the source project
NotesProject_Source(snapshot) == snapshot.source

\* the project whose merge request carries the notes
NotesProject(snapshot) == snapshot.target

forkedLogEntry ==
  "Won't create/update commitStatus due to the access limitation for forked repo"

\* variant: the provider's error is swallowed
TransportError_Swallowed(request) == NilErr

\* the error of the provider for a request, as the call returns it
TransportError(request) ==
  [kind |-> "Provider", text |-> <<request.method, request.resource, request.project>>]

\* variant: a request that failed is sent once more
Attempted_Retried(plan, failed) ==
  IF failed = 0 THEN plan ELSE SubSeq(plan, 1, failed) \o <<plan[failed]>>

\* the requests a call sends when its request at position failed fails
\* (0: none does): those up to the failing one, each once
Attempted(plan, failed) == IF failed = 0 THEN plan ELSE SubSeq(plan, 1, failed)

\* the requests among those that the provider answered without error
Answered(requests, failed) ==
  IF failed = 0 THEN requests ELSE SubSeq(requests, 1, failed - 1)

\* some request of the sequence has the method and the resource
HasRequest(requests, method, resource) ==
  \E i \in DOMAIN requests :
    requests[i].method = method /\ requests[i].resource = resource

\* faulty: the provider may answer any one request of the call with an error
ReportStatus(report, faulty) ==
  LET snap == gitlab.snapshot
      m == GenerateGitlabCommitState(report.Status)
      forked == IsForked(snap)
      existing == IF forked THEN NoCommitState
                  ELSE GetExistingCommitStatus(gitlab.statuses, report.FullName)
      post == ~forked /\ ~SkipCommitStatus(existing, m.state)
      comment == IsMergeRequest(snap) /\ report.Status # "InProgress"
      found == comment /\ GetExistingNoteID(gitlab.notes, NotesProject(snap),
                            report.ScenarioName, report.SnapshotName) # {}
      write == comment /\ ~found
      req(method, resource, project) ==
        <<[method |-> method, resource |-> resource, project |-> project]>>
      plan == (IF forked THEN <<>> ELSE req("GET", "statuses", snap.source)) \o
              (IF post THEN req("POST", "statuses", snap.source) ELSE <<>>) \o
              (IF comment THEN req("GET", "notes", NotesProject(snap)) ELSE <<>>) \o
              (IF write THEN req("POST", "notes", NotesProject(snap)) ELSE <<>>)
  IN /\ gitlab.initialized
     /\ Len(gitlab.notes) < MaxNotes
     /\ IF m.err # NilErr
        THEN gitlab' = [gitlab EXCEPT !.last = [NoCall EXCEPT !.op = "ReportStatus",
                                                 !.report = report, !.err = m.err]]
        ELSE \E failed \in (IF faulty THEN 0..Len(plan) ELSE {0}) :
          LET ok == Answered(plan, failed)
          IN gitlab' = [gitlab EXCEPT
               !.statuses = IF HasRequest(ok, "POST", "statuses")
                            THEN [@ EXCEPT ![report.FullName] = m.state] ELSE @,
               !.notes = IF HasRequest(ok, "POST", "notes")
                         THEN Append(@, [project |-> NotesProject(snap),
                                         scenario |-> report.ScenarioName,
                                         snapshot |-> report.SnapshotName,
                                         state |-> m.state])
                         ELSE @,
               !.last = [NoCall EXCEPT
                 !.op = "ReportStatus", !.report = report, !.state = m.state,
                 !.existingCommitStatus =
                   IF HasRequest(ok, "GET", "statuses") THEN existing ELSE NoCommitState,
                 !.existingNote = HasRequest(ok, "GET", "notes") /\ found,
                 !.requests = Attempted(plan, failed),
                 !.failed = failed,
                 !.log = IF forked THEN {forkedLogEntry} ELSE {},
                 !.err = IF failed = 0 THEN NilErr ELSE TransportError(plan[failed])]]
     /\ UNCHANGED <<store, worker, conflicts, derived, components, group>>

NextReporter ==
  \/ \E snapshot \in SnapshotSamples : Initialize(snapshot)
  \/ \E report \in ReportSamples : ReportStatus(report, FALSE)

SpecReporter == Init /\ [][NextReporter]_vars

(***************************************************************************)
(* The GitLab reporter with a provider that may fail any request.          *)
(***************************************************************************)
\* the Snapshots with all required metadata
CompleteSnapshotSamples == {snapshot \in SnapshotSamples : MissingMetadata(snapshot) = <<>>}

\* a running, a passed and two failed tests for one scenario, a failed test
\* for another
FaultyReportSamples ==
  {TestReport("scenario1", st) :
     st \in {"InProgress", "TestPassed", "TestFail", "EnvironmentProvisionError"}}
  \cup {TestReport("scenario2", "TestFail")}

NextFaultyProvider ==
  \/ \E snapshot \in CompleteSnapshotSamples : Initialize(snapshot)
  \/ \E report \in FaultyReportSamples : ReportStatus(report, TRUE)

SpecFaultyProvider == Init /\ [][NextFaultyProvider]_vars

(***************************************************************************)
(* EnsurePRGroupAnnotated on the builds of PR groups: two build PLRs, one  *)
(* for each component, and the component Snapshots made for earlier builds *)
(* of their branches.                                                      *)
(***************************************************************************)
InitPRGroup ==
  /\ gitlab = NoReporter
  /\ components = ComponentFixtures
  /\ plr = [p \in {buildPipelineRunName} |-> buildPipelineRun]
  /\ snapshots = {}
  /\ created = 0
  /\ pc = [p \in {buildPipelineRunName} |-> "idle"]
  /\ pass = [p \in {buildPipelineRunName} |-> NoPass]
  /\ orphaned = [p \in {buildPipelineRunName} |-> FALSE]
  /\ conflicts = 0
  /\ derived = NoDerivation
  /\ \E b1, b2, b3 \in Branches :
       group = [NoGroupState EXCEPT
         !.plrs = (buildPipelineRunName :> groupPipelineRun(hasComp, b1, TRUE)) @@
                  (buildPipelineRun2Name :> groupPipelineRun(hasComp2, b2, TRUE)),
         !.snaps = (olderSnapshotName :> groupSnapshot(hasComp, b3, 0)) @@
                   (hasSnapshotName :> groupSnapshot(hasComp, b3, 1)) @@
                   (hasComSnapshot2Name :> groupSnapshot(hasComp2, prGroup, 2))]

\* the build engine ends the build
BuildCompletes(p, cond) ==
  /\ group.plrs[p].cond = "Unknown"
  /\ group' = [group EXCEPT !.plrs[p].cond = cond]
  /\ UNCHANGED <<store, worker, conflicts, derived, components, gitlab>>

\* variant: the group metadata is never found on the PLR
IsGroupAnnotated_Never(o) == FALSE

\* the PLR carries the group-hash label and the group-name annotation
IsGroupAnnotated(o) == o.prGroupHash # NoValue /\ o.prGroup # NoValue

\* for each component, its latest Snapshot of the group
LatestSnapshotsInGroup(snaps, hash) ==
  {n \in DOMAIN snaps :
     /\ snaps[n].prGroupHash = hash
     /\ \A m \in DOMAIN snaps :
          (snaps[m].prGroupHash = hash /\ snaps[m].component = snaps[n].component)
            => snaps[m].created <= snaps[n].created}

\* the builds of the group still running
InFlightBuildsInGroup(plrs, hash) ==
  {q \in DOMAIN plrs : plrs[q].prGroupHash = hash /\ ~HasPipelineRunFinished(plrs[q])}

\* variant: the fan-out stops at the first write that fails
Written_AbortOnFailure(targets, failing) == IF failing = {} THEN targets ELSE {}

\* the targets of the fan-out that get the notice when the writes to some fail
Written(targets, failing) == targets \ failing

EnsurePRGroupAnnotated(p) ==
  LET o == group.plrs[p]
      patch == ~IsGroupAnnotated(o) /\ o.sourceBranch # NoValue
      meta == GetPRGroupFromBuildPLR(o, p)
      o1 == IF patch THEN [o EXCEPT !.prGroupHash = meta.prGroupHash,
                                    !.prGroup = meta.prGroup]
            ELSE o
      plrs1 == [group.plrs EXCEPT ![p] = o1]
      failedBuild == /\ IsGroupAnnotated(o1)
                     /\ HasPipelineRunFinished(o1) /\ ~HasPipelineRunSucceeded(o1)
      targets ==
        IF failedBuild
        THEN {[kind |-> "Snapshot", name |-> n] :
                n \in LatestSnapshotsInGroup(group.snaps, o1.prGroupHash)}
             \cup {[kind |-> "PipelineRun", name |-> q] :
                     q \in InFlightBuildsInGroup(plrs1, o1.prGroupHash)}
        ELSE {}
      msg == buildPLRFailureMsg(p, o1.component, o1.prGroup)
  IN \E failing \in SUBSET targets :
     \E result \in (IF failing = {} THEN {ContinueProcessing}
                    ELSE {ContinueProcessing, RequeueWithError(conflictErr)}) :
       LET written == Written(targets, failing)
       IN /\ group' = [group EXCEPT
               !.plrs = [q \in DOMAIN plrs1 |->
                           IF [kind |-> "PipelineRun", name |-> q] \in written
                           THEN [plrs1[q] EXCEPT !.prGroupCreation = msg]
                           ELSE plrs1[q]],
               !.snaps = [n \in DOMAIN group.snaps |->
                            IF [kind |-> "Snapshot", name |-> n] \in written
                            THEN [group.snaps[n] EXCEPT !.prGroupCreation = msg]
                            ELSE group.snaps[n]],
               !.last = [NoGroupCall EXCEPT
                  !.op = "EnsurePRGroupAnnotated", !.plr = p, !.seen = o,
                  !.result = result, !.patched = patch,
                  !.targets = targets, !.written = written,
                  !.log = {[failed |-> t] : t \in failing}]]
          /\ UNCHANGED <<store, worker, conflicts, derived, components, gitlab>>

NextPRGroup ==
  \/ \E p \in DOMAIN group.plrs, cond \in {"True", "False"} : BuildCompletes(p, cond)
  \/ \E p \in DOMAIN group.plrs : EnsurePRGroupAnnotated(p)

SpecPRGroup == InitPRGroup /\ [][NextPRGroup]_vars

(***************************************************************************)
(* EnsureIntegrationTestReportedToGitProvider on a build PLR before its    *)
(* Snapshot exists; the reporter is a mock that accepts every report.      *)
(***************************************************************************)
InitProvisional ==
  /\ gitlab = NoReporter
  /\ components = ComponentFixtures
  /\ plr = [p \in {buildPipelineRunName} |-> buildPipelineRun]
  /\ snapshots = {}
  /\ created = 0
  /\ pc = [p \in {buildPipelineRunName} |-> "idle"]
  /\ pass = [p \in {buildPipelineRunName} |-> NoPass]
  /\ orphaned = [p \in {buildPipelineRunName} |-> FALSE]
  /\ conflicts = 0
  /\ derived = NoDerivation
  /\ \E pr \in BOOLEAN, b \in Branches :
       group = [NoGroupState EXCEPT
         !.plrs = (buildPipelineRunName :> groupPipelineRun(hasComp, prGroup, pr)),
         !.snaps = (olderSnapshotName :> groupSnapshot(hasComp, prGroup, 0)) @@
                   (hasSnapshotName :> groupSnapshot(hasComp, prGroup, 1)) @@
                   (hasComSnapshot2Name :> groupSnapshot(hasComp2, b, 2))]

\* EnsureSnapshotExists has created the Snapshot and annotated the PLR
SnapshotNameAnnotated(p) ==
  /\ HasPipelineRunSucceeded(group.plrs[p])
  /\ ~group.plrs[p].snapshot
  /\ group' = [group EXCEPT !.plrs[p].snapshot = TRUE]
  /\ UNCHANGED <<store, worker, conflicts, derived, components, gitlab>>

\* EnsureSnapshotExists has failed to derive the Snapshot and annotated the PLR
CreateSnapshotFailureAnnotated(p) ==
  /\ HasPipelineRunSucceeded(group.plrs[p])
  /\ ~group.plrs[p].snapshot
  /\ ~group.plrs[p].createSnapshot
  /\ group' = [group EXCEPT !.plrs[p].createSnapshot = TRUE]
  /\ UNCHANGED <<store, worker, conflicts, derived, components, gitlab>>

\* the pull/merge request of a Snapshot is opened, merged or closed
PullRequestChanges(n) ==
  /\ group' = [group EXCEPT
       !.opened = IF n \in @ THEN @ \ {n} ELSE @ \cup {n}]
  /\ UNCHANGED <<store, worker, conflicts, derived, components, gitlab>>

\* variant: a running build is reported as failed
getIntegrationTestStatusFromBuildPLR_Failed(o) ==
  CASE ~HasPipelineRunSucceeded(o) -> "BuildPLRFailed"
    [] HasPipelineRunSucceeded(o) /\ o.createSnapshot /\ ~o.snapshot
         -> "SnapshotCreationFailed"
    [] OTHER -> NoValue

\* the status to report for the build as it is now; none for a build that
\* succeeded and whose Snapshot is neither created nor failed
getIntegrationTestStatusFromBuildPLR(o) ==
  CASE ~HasPipelineRunFinished(o) -> "BuildPLRInProgress"
    [] HasPipelineRunFinished(o) /\ ~HasPipelineRunSucceeded(o) -> "BuildPLRFailed"
    [] HasPipelineRunSucceeded(o) /\ o.createSnapshot /\ ~o.snapshot
         -> "SnapshotCreationFailed"
    [] OTHER -> NoValue

\* the components that have a Snapshot of the group with an open pull/merge
\* request
GetComponentsFromSnapshotForPRGroup(snaps, opened, hash) ==
  {snaps[n].component : n \in {m \in opened : snaps[m].prGroupHash = hash}}

\* variant: one component with an open pull/merge request is enough
IsGroupSnapshotExpected_One(comps) == Cardinality(comps) >= 1

\* more than one component has an open pull/merge request
IsGroupSnapshotExpected(comps) == Cardinality(comps) > 1

\* variant: the pass goes on when the group metadata is missing
notAnnotatedResult_Continue == ContinueProcessing

notAnnotatedResult ==
  RequeueWithError([kind |-> "PRGroupNotAnnotated",
                    text |-> <<"pr group has not been added to build pipelineRun metadata">>])

\* variant: the pass records the status of the build
SnapshotCreatedReport_Status(o) == "BuildPLRInProgress"

\* what the pass records for a PLR that has its Snapshot
SnapshotCreatedReport(o) == "SnapshotCreated"

\* variant: every build PLR is taken for one triggered by a pull request
IsPLRCreatedByPACPullRequest_Always(o) == TRUE

\* the PLR carries the pipelines-as-code pull-request label
IsPLRCreatedByPACPullRequest(o) == o.pullRequest

\* variant: any recorded report ends the reporting
IsLatestStatusReported_AnyRecorded(o, status) == o.report # NoValue

\* the report annotation of the PLR already records the status
IsLatestStatusReported(o, status) == o.report = status

EnsureIntegrationTestReportedToGitProvider(p) ==
  LET o == group.plrs[p]
      status == getIntegrationTestStatusFromBuildPLR(o)
      comps == GetComponentsFromSnapshotForPRGroup(group.snaps, group.opened, o.prGroupHash)
      call == [NoGroupCall EXCEPT !.op = "EnsureIntegrationTestReportedToGitProvider",
                                  !.plr = p, !.seen = o, !.opened = group.opened]
  IN /\ group' =
          IF ~IsPLRCreatedByPACPullRequest(o)
          THEN [group EXCEPT !.last = [call EXCEPT !.log =
                  {"build pipelineRun is not created by pull/merge request, no need to set integration test status in git provider"}]]
          ELSE IF ~IsGroupAnnotated(o)
          THEN [group EXCEPT !.last = [call EXCEPT
                  !.result = notAnnotatedResult,
                  !.log = {"pr group info has not been added to build pipelineRun metadata, try again"}]]
          ELSE IF o.snapshot
          THEN [group EXCEPT
                  !.plrs[p].report = SnapshotCreatedReport(o),
                  !.last = [call EXCEPT !.patched = TRUE, !.log =
                    {"snapshot has been created for build pipelineRun, no need to report integration status from build pipelinerun status"}]]
          ELSE IF status = NoValue
          THEN [group EXCEPT !.last = call]
          ELSE IF IsLatestStatusReported(o, status)
          THEN [group EXCEPT !.last = [call EXCEPT !.status = status, !.log =
                  {"integration test has been set correctly or is being processed, no need to set integration test status from build pipelinerun"}]]
          ELSE [group EXCEPT
                  !.plrs[p].report = status,
                  !.last = [call EXCEPT
                    !.status = status, !.patched = TRUE,
                    !.reported =
                      <<[target |-> "component", status |-> status]>> \o
                      (IF IsGroupSnapshotExpected(comps)
                       THEN <<[target |-> "group", status |-> status]>> ELSE <<>>),
                    !.log = IF IsGroupSnapshotExpected(comps)
                            THEN {"group snapshot is expected to be created for build pipelinerun"}
                            ELSE {}]]
     /\ UNCHANGED <<store, worker, conflicts, derived, components, gitlab>>

NextProvisional ==
  \/ \E p \in DOMAIN group.plrs, cond \in {"True", "False"} : BuildCompletes(p, cond)
  \/ \E p \in DOMAIN group.plrs : SnapshotNameAnnotated(p)
  \/ \E p \in DOMAIN group.plrs : CreateSnapshotFailureAnnotated(p)
  \/ \E n \in DOMAIN group.snaps : PullRequestChanges(n)
  \/ \E p \in {q \in DOMAIN group.plrs : group.plrs[q].pullRequest} : EnsurePRGroupAnnotated(p)
  \/ \E p \in DOMAIN group.plrs : EnsureIntegrationTestReportedToGitProvider(p)

SpecProvisional == InitProvisional /\ [][NextProvisional]_vars

(***************************************************************************)
(* Properties.                                                             *)
(***************************************************************************)
SnapshotNamesOf(p) == {s.name : s \in GetAllSnapshotsForBuildPipelineRun(p)}

\* the call of operation op on p has done its work and is about to return
Returning(p, op) == pc[p] = "return" /\ pass[p].op = op

\* the call of EnsureSnapshotExists on p is about to return from branch b
ReturningFrom(p, b) == Returning(p, "EnsureSnapshotExists") /\ pass[p].branch = b

\* no Snapshot was pruned and none was created by another writer
Undisturbed ==
  /\ Cardinality(snapshots) = created
  /\ \A s \in snapshots : s.by # "foreign"

\* a Snapshot can be derived from the PLR: succeeded, signed, results valid
DerivableFrom(o, p) ==
  /\ HasPipelineRunSucceeded(o)
  /\ o.signed
  /\ prepareSnapshotForPipelineRun(o, p, hasComp, hasApp).err = NilErr

Derivable(p) == DerivableFrom(plr[p], p)

\* C1: on a succeeded, signed PLR with valid results, with no Snapshot pruned
\* and no other Snapshot writer, there is never more than one Snapshot that
\* back-references the PLR, and every call of EnsureSnapshotExists that began
\* on the PLR in that condition and returns without error on the PLR still
\* in the store, the first and every later one, leaves exactly one such Snapshot, the PLR annotated with its
\* name, and the PLR without the finalizer.
C1_ExactlyOneSnapshot ==
  \A p \in DOMAIN plr :
    (Undisturbed /\ Derivable(p)) =>
      /\ Cardinality(GetAllSnapshotsForBuildPipelineRun(p)) <= 1
      /\ (/\ Returning(p, "EnsureSnapshotExists")
          /\ DerivableFrom(pass[p].seen, p)
          /\ pass[p].result.err = NilErr
          /\ plr[p].exists)
         => /\ Cardinality(GetAllSnapshotsForBuildPipelineRun(p)) = 1
            /\ plr[p].snapshot \in SnapshotNamesOf(p)
            /\ ~plr[p].finalizer

\* a repeated call: the PLR was annotated when the call began
C1_Witness ==
  \E p \in DOMAIN plr :
    /\ ReturningFrom(p, "annotated")
    /\ Undisturbed /\ Derivable(p)
    /\ Cardinality(GetAllSnapshotsForBuildPipelineRun(p)) = 1
    /\ "finalizer" \in pass[p].wrote

\* C2: in a pass that creates the Snapshot the writes are ordered Snapshot,
\* then annotation, then finalizer; a pass that finds one Snapshot by the
\* back-reference label creates none and annotates the PLR with it; and the
\* worker of a PLR never has two Snapshots of its own in the store, also when
\* it crashed between creating the Snapshot and annotating the PLR.
C2_CreateAnnotateFinalize ==
  \A p \in DOMAIN plr :
    /\ (pc[p] = "annotate" /\ "Snapshot" \in pass[p].wrote)
         => (pass[p].wrote = {"Snapshot"} /\ plr[p].snapshot = NoSnapshot)
    /\ (pc[p] = "finalizer" /\ "Snapshot" \in pass[p].wrote)
         => pass[p].wrote = {"Snapshot", "annotation"}
    /\ ("finalizer" \in pass[p].wrote /\ pass[p].branch \in {"create", "existing"})
         => "annotation" \in pass[p].wrote
    /\ pass[p].branch = "existing" => "Snapshot" \notin pass[p].wrote
    /\ ReturningFrom(p, "existing")
         => ("annotation" \in pass[p].wrote /\ plr[p].snapshot = pass[p].target)
    /\ Cardinality({s \in snapshots : s.by = p}) <= 1

\* the pass after a crash: the one Snapshot found is the worker's own
C2_Witness ==
  \E p \in DOMAIN plr :
    /\ ReturningFrom(p, "existing")
    /\ \E s \in snapshots : s.by = p /\ s.name = plr[p].snapshot
    /\ pass[p].wrote = {"annotation", "finalizer"}

C4_Claimed ==
  \A p \in DOMAIN plr :
    ReturningFrom(p, "annotated") =>
      /\ "Snapshot" \notin pass[p].wrote
      /\ ~plr[p].finalizer
      /\ pass[p].result.CancelRequest
      /\ pass[p].result.err = NilErr

\* C4, amended: a pass over a succeeded PLR annotated with a resolvable
\* Snapshot creates no Snapshot, removes the finalizer and returns
\* CancelRequest = false without error.
C4_AnnotatedContinues ==
  \A p \in DOMAIN plr :
    ReturningFrom(p, "annotated") =>
      /\ "Snapshot" \notin pass[p].wrote
      /\ ~plr[p].finalizer
      /\ ~pass[p].result.CancelRequest
      /\ pass[p].result.err = NilErr

C4_Witness ==
  \E p \in DOMAIN plr :
    /\ ReturningFrom(p, "annotated")
    /\ pass[p].seen.finalizer
    /\ \E s \in snapshots : s.name = plr[p].snapshot

C6_ValidationErrorAnnotated ==
  \A p \in DOMAIN plr :
    ReturningFrom(p, "validationError") =>
      /\ IsValidationError(pass[p].cerr)
      /\ "Snapshot" \notin pass[p].wrote
      /\ plr[p].createSnapshot.status = "failed"
      /\ ContainSubstring(plr[p].createSnapshot.message, pass[p].cerr.text)
      /\ ~plr[p].finalizer
      /\ pass[p].result.CancelRequest
      /\ ~pass[p].result.RequeueRequest
      /\ pass[p].result.err = NilErr

C6_Witness ==
  \E p \in DOMAIN plr :
    /\ ReturningFrom(p, "validationError")
    /\ pass[p].cerr.kind = "InvalidImageDigest"
    /\ pass[p].wrote = {"createSnapshot", "finalizer"}
    /\ snapshots = {}

\* C7: a call of EnsurePipelineIsFinalized on a PLR without deletion
\* timestamp leaves the PLR holding the finalizer and returns without cancel
\* or error; when the PLR held the finalizer already, the call wrote nothing.
C7_FinalizerHeld ==
  \A p \in DOMAIN plr :
    (Returning(p, "EnsurePipelineIsFinalized") /\ ~plr[p].deleting) =>
      /\ plr[p].finalizer
      /\ ~pass[p].result.CancelRequest
      /\ pass[p].result.err = NilErr
      /\ pass[p].seen.finalizer => pass[p].wrote = {}

C7_Witness ==
  \E p \in DOMAIN plr :
    /\ Returning(p, "EnsurePipelineIsFinalized")
    /\ ~plr[p].deleting
    /\ pass[p].seen.finalizer

\* C8: a call of EnsurePipelineIsFinalized on a PLR with a deletion timestamp
\* leaves the PLR without the finalizer, whatever its Succeeded condition.
C8_DeletingLosesFinalizer ==
  \A p \in DOMAIN plr :
    (Returning(p, "EnsurePipelineIsFinalized") /\ pass[p].seen.deleting) =>
      ~plr[p].finalizer

\* the PLR still reports Running and held the finalizer
C8_Witness ==
  \E p \in DOMAIN plr :
    /\ Returning(p, "EnsurePipelineIsFinalized")
    /\ pass[p].seen.deleting /\ pass[p].seen.finalizer
    /\ plr[p].cond = "Unknown"
    /\ pass[p].wrote = {"finalizer"}

\* C9: a pass over an annotated PLR that meets NotFound, for the PLR or for
\* the Snapshot the annotation names, returns without error and without
\* requeue, creates no Snapshot and writes nothing to the PLR.
C9_NotFoundIsNoOp ==
  \A p \in DOMAIN plr :
    (/\ Returning(p, "EnsureSnapshotExists")
     /\ pass[p].branch \in {"notFound", "orphaned"}
     /\ pass[p].seen.snapshot # NoSnapshot) =>
      /\ pass[p].result.err = NilErr
      /\ ~pass[p].result.RequeueRequest
      /\ pass[p].wrote = {}
      /\ plr[p].snapshot = pass[p].seen.snapshot
      /\ plr[p].finalizer = pass[p].seen.finalizer

\* the PLR was deleted from the store under the pass
C9_Witness ==
  \E p \in DOMAIN plr :
    /\ ReturningFrom(p, "notFound")
    /\ pass[p].seen.snapshot # NoSnapshot
    /\ ~plr[p].exists

\* C10: a derivation from results that lack IMAGE_DIGEST, IMAGE_URL or the
\* source repository URL yields no Snapshot and a missing-info error whose
\* text names one of the lacking keys and the PLR.
C10_MissingInfoNamed ==
  LET lacking == {"IMAGE_URL", "IMAGE_DIGEST", "CHAINS-GIT_URL"} \ derived.results.keys IN
    (derived.done /\ lacking # {}) =>
      /\ derived.out.snapshot = NoSnapshotSpec
      /\ derived.out.err.kind = "MissingInfoInPipelineRun"
      /\ \E k \in lacking :
           derived.out.err.text = <<"Missing info ", k, " from pipelinerun ", derived.plrName>>

\* the results of the test: only the source URL and IMAGE_URL
C10_Witness ==
  /\ derived.done
  /\ derived.results.keys = {"CHAINS-GIT_URL", "IMAGE_URL"}
  /\ derived.plrName = buildPipelineRunName
  /\ derived.out.err.text =
       <<"Missing info ", "IMAGE_DIGEST", " from pipelinerun ", "pipelinerun-build-sample">>

\* C11: a derivation from complete results whose IMAGE_DIGEST is malformed
\* (no algorithm:encoded form, or an encoded part of the wrong length) yields
\* no Snapshot and an error of kind InvalidImageDigest whose text carries the
\* component name and the reference imageURL@digest; with the well-formed
\* sha256 digest it yields no error and a Snapshot whose built component has
\* the image imageURL@digest.
C11_InvalidDigestDistinguished ==
  (derived.done /\ derived.results.keys = ResultKeys) =>
    /\ derived.results.digest \in {invalidDigest, shortDigest} =>
         /\ derived.out.err.kind = "InvalidImageDigest"
         /\ derived.out.snapshot = NoSnapshotSpec
         /\ ContainSubstring(derived.out.err.text, <<hasComp>>)
         /\ ContainSubstring(derived.out.err.text,
              <<SampleImageWithoutDigest, "@">> \o DigestText(derived.results.digest))
    /\ derived.results.digest = SampleDigest =>
         /\ derived.out.err = NilErr
         /\ \E i \in DOMAIN derived.out.snapshot.components :
              /\ derived.out.snapshot.components[i].name = hasComp
              /\ derived.out.snapshot.components[i].containerImage =
                   <<SampleImageWithoutDigest, "@", "sha256", ":", SampleHex>>

\* the digest of the test: "invalidDigest"
C11_Witness ==
  /\ derived.done
  /\ derived.results.keys = ResultKeys
  /\ derived.results.digest = invalidDigest
  /\ derived.out.err.kind = "InvalidImageDigest"
  /\ ContainSubstring(derived.out.err.text,
       <<"component-sample", " image ", "quay.io/redhat-appstudio/sample-image", "@", "invalidDigest">>)

\* C12: in a derived Snapshot every component entry has an image reference
\* of the form url@sha256:<64 characters>; a component of the application
\* other than the built one has an entry exactly when its current image is
\* such a reference, and the entry then carries that image; a component whose
\* image is empty or has no well-formed digest has no entry.
C12_EntriesDigestQualified ==
  (derived.done /\ derived.out.err = NilErr) =>
    LET entries == derived.out.snapshot.components
        named(c) == {i \in DOMAIN entries : entries[i].name = c}
    IN /\ \A i \in DOMAIN entries :
            LET image == entries[i].containerImage
            IN /\ Len(image) = 5
               /\ image[2] = "@" /\ image[3] = "sha256" /\ image[4] = ":"
               /\ Len(image[5]) = 64
       /\ \A c \in DOMAIN components \ {hasComp} :
            /\ components[c] = SampleImage =>
                 \E i \in named(c) : entries[i].containerImage = components[c]
            /\ components[c] # SampleImage => named(c) = {}

\* one other component is reused, and the fixture's hasComp2 case: omitted
C12_Witness ==
  /\ derived.done /\ derived.out.err = NilErr
  /\ hasComp2 \in DOMAIN components
  /\ components[hasComp2] = emptyImage
  /\ Len(derived.out.snapshot.components) = 1
  /\ derived.out.snapshot.components[1].name = hasComp

\* a key of the build PLR matches one of the allow-listed prefixes
AllowListed(key) ==
  key[1] \in {"pipelinesascode.tekton.dev", "custom.appstudio.openshift.io", "build.appstudio"}

\* the key under which an allow-listed key of the PLR is found on the Snapshot
OnSnapshot(key) ==
  IF key[1] = "pipelinesascode.tekton.dev"
  THEN <<"pac.test.appstudio.openshift.io">> \o Tail(key) ELSE key

\* the entries of a derived Snapshot's labels or annotations (to), other than
\* the keys the derivation sets itself (own), are the allow-listed entries of
\* the PLR (from) and nothing else
OnlyAllowListed(from, to, own) ==
  /\ \A k \in DOMAIN to \ own :
       \E j \in DOMAIN from : AllowListed(j) /\ OnSnapshot(j) = k /\ to[k] = from[j]
  /\ \A j \in DOMAIN from :
       AllowListed(j) => (OnSnapshot(j) \in DOMAIN to /\ to[OnSnapshot(j)] = from[j])

Reported == gitlab.last.op = "ReportStatus"

\* the requests of the last call with the given method on the given resource
Requests(method, resource) ==
  {i \in DOMAIN gitlab.last.requests :
     /\ gitlab.last.requests[i].method = method
     /\ gitlab.last.requests[i].resource = resource}

\* C14: GenerateGitlabCommitState returns a GitLab state and no error for
\* every value of IntegrationTestStatusValues, and so does every ReportStatus
\* call for a report with such a status.
C14_MappingTotal ==
  /\ \A t \in IntegrationTestStatusValues :
       /\ GenerateGitlabCommitState(t).err = NilErr
       /\ GenerateGitlabCommitState(t).state
            \in {"failed", "success", "running", "pending", "canceled"}
  /\ (Reported /\ gitlab.last.report.Status \in IntegrationTestStatusValues) =>
       /\ gitlab.last.err.kind # "UnsupportedStatus"
       /\ gitlab.last.state \in {"failed", "success", "running", "pending", "canceled"}

C14_Witness ==
  /\ Reported
  /\ gitlab.last.report.Status = "BuildPLRFailed"
  /\ gitlab.last.err = NilErr
  /\ gitlab.last.state # NoCommitState

\* the state the claim gives each status
ClaimedGitlabState(t) ==
  CASE t \in {"EnvironmentProvisionError", "DeploymentError", "TestFail", "TestInvalid"}
         -> "failed"
    [] t = "TestPassed" -> "success"
    [] t = "InProgress" -> "running"
    [] t \in {"Pending", "BuildPLRInProgress"} -> "pending"
    [] t \in {"Deleted", "BuildPLRFailed", "SnapshotCreationFailed",
              "GroupSnapshotCreationFailed"} -> "canceled"

\* C15: the mapping is: EnvironmentProvisionError, DeploymentError, TestFail,
\* TestInvalid to failed; TestPassed to success; InProgress to running;
\* Pending, BuildPLRInProgress to pending; Deleted, BuildPLRFailed,
\* SnapshotCreationFailed, GroupSnapshotCreationFailed to canceled; and this
\* is the state ReportStatus computes for a report.
C15_MappingExact ==
  /\ \A t \in IntegrationTestStatusValues :
       GenerateGitlabCommitState(t).state = ClaimedGitlabState(t)
  /\ (Reported /\ gitlab.last.report.Status \in IntegrationTestStatusValues) =>
       gitlab.last.state = ClaimedGitlabState(gitlab.last.report.Status)

C15_Witness ==
  /\ Reported
  /\ gitlab.last.report.Status = "BuildPLRInProgress"
  /\ gitlab.last.state = "pending"

\* C16: Initialize returns an error when the Snapshot lacks the repo-URL
\* annotation, the SHA label, the target-project-ID annotation or the
\* source-project-ID annotation, and no error when it has all four; the status
\* code is 0 either way.
C16_InitializeFailsFast ==
  gitlab.last.op = "Initialize" =>
    /\ (\E k \in {PipelineAsCodeRepoURLAnnotation, PipelineAsCodeSHALabel,
                  PipelineAsCodeTargetProjectIDAnnotation,
                  PipelineAsCodeSourceProjectIDAnnotation} :
          k \notin gitlab.snapshot.metadata)
         => (gitlab.last.err # NilErr /\ ~gitlab.initialized)
    /\ {PipelineAsCodeRepoURLAnnotation, PipelineAsCodeSHALabel,
        PipelineAsCodeTargetProjectIDAnnotation,
        PipelineAsCodeSourceProjectIDAnnotation} \subseteq gitlab.snapshot.metadata
         => (gitlab.last.err = NilErr /\ gitlab.initialized)
    /\ gitlab.last.statusCode = 0

\* the Snapshot of the tests without the SHA label
C16_Witness ==
  /\ gitlab.last.op = "Initialize"
  /\ gitlab.snapshot.metadata = hasSnapshot.metadata \ {PipelineAsCodeSHALabel}
  /\ gitlab.last.err # NilErr

\* the state of the commit status named as the report when the last call began
StatusBefore ==
  IF IsForked(gitlab.snapshot) THEN gitlab.statuses[gitlab.last.report.FullName]
  ELSE gitlab.last.existingCommitStatus

\* C17: a ReportStatus call with an in-progress report, made when the commit
\* has a status of the report's FullName in state running, sends no
\* commit-status POST and no note POST and, the provider answering, returns
\* without error; the provider's status stays as it was, however often the
\* call is repeated.
C17_RunningNotReposted ==
  (/\ Reported
   /\ gitlab.last.report.Status = "InProgress"
   /\ StatusBefore = "running") =>
    /\ Requests("POST", "statuses") = {}
    /\ Requests("POST", "notes") = {}
    /\ gitlab.last.failed = 0 => gitlab.last.err = NilErr
    /\ gitlab.last.statusCode = 0
    /\ gitlab.statuses[gitlab.last.report.FullName] = "running"

\* the repeated report found the status and only listed the statuses
C17_Witness ==
  /\ Reported
  /\ gitlab.last.report.Status = "InProgress"
  /\ gitlab.last.existingCommitStatus = "running"
  /\ IsMergeRequest(gitlab.snapshot)
  /\ Len(gitlab.last.requests) = 1
  /\ Requests("GET", "statuses") = {1}
  /\ gitlab.last.err = NilErr

\* C18: the merge request has at most one note for each pair of scenario and
\* Snapshot; a ReportStatus call posts a note only when it found none for the
\* pair of its report, and a call that found one sends no write for notes, so
\* the note stays as it was written.
C18_OneNotePerPair ==
  /\ \A i, j \in DOMAIN gitlab.notes :
       (/\ gitlab.notes[i].project = gitlab.notes[j].project
        /\ gitlab.notes[i].scenario = gitlab.notes[j].scenario
        /\ gitlab.notes[i].snapshot = gitlab.notes[j].snapshot) => i = j
  /\ Reported =>
       /\ Requests("POST", "notes") # {} =>
            /\ ~gitlab.last.existingNote
            /\ IsMergeRequest(gitlab.snapshot)
       /\ (Requests("POST", "notes") # {} /\ gitlab.last.failed = 0) =>
            /\ gitlab.notes # <<>>
            /\ gitlab.notes[Len(gitlab.notes)].scenario = gitlab.last.report.ScenarioName
            /\ gitlab.notes[Len(gitlab.notes)].snapshot = gitlab.last.report.SnapshotName
       /\ gitlab.last.existingNote =>
            \A i \in DOMAIN gitlab.last.requests :
              gitlab.last.requests[i].resource = "notes"
                => gitlab.last.requests[i].method = "GET"

\* a later report for the pair, with another outcome, left the note alone
C18_Witness ==
  /\ Reported
  /\ gitlab.last.existingNote
  /\ gitlab.last.state = "success"
  /\ \E i \in DOMAIN gitlab.notes :
       /\ gitlab.notes[i].scenario = gitlab.last.report.ScenarioName
       /\ gitlab.notes[i].snapshot = gitlab.last.report.SnapshotName
       /\ gitlab.notes[i].state = "failed"

\* C19: a ReportStatus call for a Snapshot without the pull-request
\* annotation sends no request for notes, whatever the status of the report,
\* and it posts the commit status as it does for a merge request: always,
\* unless the Snapshot comes from a fork or the status found is already the
\* running state to be reported.
C19_PushWithoutComments ==
  (Reported /\ gitlab.last.err = NilErr
     /\ PipelineAsCodePullRequestAnnotation \notin gitlab.snapshot.metadata) =>
    /\ \A i \in DOMAIN gitlab.last.requests : gitlab.last.requests[i].resource # "notes"
    /\ (/\ gitlab.snapshot.source = gitlab.snapshot.target
        /\ ~(gitlab.last.existingCommitStatus = "running" /\ gitlab.last.state = "running"))
         => /\ Requests("POST", "statuses") # {}
            /\ gitlab.statuses[gitlab.last.report.FullName] = gitlab.last.state

\* the report of the test: a provisioning error on a push Snapshot
C19_Witness ==
  /\ Reported
  /\ PipelineAsCodePullRequestAnnotation \notin gitlab.snapshot.metadata
  /\ gitlab.last.report.Status = "EnvironmentProvisionError"
  /\ Requests("POST", "statuses") # {}
  /\ Len(gitlab.last.requests) = 2
  /\ gitlab.last.err = NilErr

\* C20: a ReportStatus call for a Snapshot whose source project differs from
\* its target project posts no commit status to any project, logs "Won't
\* create/update commitStatus due to the access limitation for forked repo"
\* and, unless the provider fails a request for notes, returns without error.
C20_ForkedSkipsCommitStatus ==
  (/\ Reported
   /\ gitlab.last.report.Status \in IntegrationTestStatusValues
   /\ gitlab.snapshot.source # gitlab.snapshot.target) =>
    /\ \A i \in DOMAIN gitlab.last.requests : gitlab.last.requests[i].resource # "statuses"
    /\ "Won't create/update commitStatus due to the access limitation for forked repo"
         \in gitlab.last.log
    /\ gitlab.last.failed = 0 => gitlab.last.err = NilErr
    /\ gitlab.last.statusCode = 0

\* the call of the test: source project 0, an in-progress report
C20_Witness ==
  /\ Reported
  /\ gitlab.snapshot.source = "0"
  /\ gitlab.snapshot.target = "456"
  /\ gitlab.last.report.Status = "InProgress"
  /\ gitlab.last.requests = <<>>
  /\ gitlab.last.err = NilErr

\* C21: a ReportStatus call sends each provider write, the commit-status
\* POST and the note POST, at most once, nothing after a request that failed,
\* and the error of the provider for that request is the error it returns.
C21_NoInternalRetry ==
  Reported =>
    /\ \A i, j \in DOMAIN gitlab.last.requests :
         (/\ gitlab.last.requests[i].method = "POST"
          /\ gitlab.last.requests[i] = gitlab.last.requests[j]) => i = j
    /\ gitlab.last.failed # 0 =>
         /\ gitlab.last.failed = Len(gitlab.last.requests)
         /\ gitlab.last.err.kind = "Provider"
         /\ gitlab.last.err.text =
              <<gitlab.last.requests[gitlab.last.failed].method,
                gitlab.last.requests[gitlab.last.failed].resource,
                gitlab.last.requests[gitlab.last.failed].project>>

\* the provider refused the commit-status POST: the call ended there
C21_Witness ==
  /\ Reported
  /\ gitlab.last.failed = 2
  /\ Requests("POST", "statuses") = {2}
  /\ Len(gitlab.last.requests) = 2
  /\ IsMergeRequest(gitlab.snapshot)
  /\ gitlab.last.report.Status = "TestFail"
  /\ gitlab.last.err.kind = "Provider"
  /\ gitlab.statuses[gitlab.last.report.FullName] # "failed"

\* the last call of the adapter on a build of a group was the operation
GroupCalled(op) == group.last.op = op

\* the object a fan-out target names carries a notice with the three names
Notified(t, plrName, component, groupName) ==
  LET notice == IF t.kind = "Snapshot" THEN group.snaps[t.name].prGroupCreation
                ELSE group.plrs[t.name].prGroupCreation
  IN /\ ContainSubstring(notice, <<plrName>>)
     /\ ContainSubstring(notice, <<component>>)
     /\ ContainSubstring(notice, <<groupName>>)

\* C22: EnsurePRGroupAnnotated on a PLR without the group metadata patches
\* the PLR once, setting the group-hash label to the hash of the source
\* branch and the group-name annotation to the source branch itself, and,
\* when no write of the pass failed, returns without cancel, requeue or
\* error; on a PLR that carries both it does not patch the PLR, and writes
\* nothing at all unless the build has failed.
C22_GroupAnnotatedOnce ==
  GroupCalled("EnsurePRGroupAnnotated") =>
    LET seen == group.last.seen
        now == group.plrs[group.last.plr]
    IN /\ (seen.prGroupHash = NoValue \/ seen.prGroup = NoValue) =>
            /\ group.last.patched
            /\ now.prGroupHash = ComputeGroupHash(seen.sourceBranch)
            /\ now.prGroup = seen.sourceBranch
            /\ group.last.log = {} =>
                 group.last.result =
                   [CancelRequest |-> FALSE, RequeueRequest |-> FALSE, err |-> NilErr]
       /\ (seen.prGroupHash # NoValue /\ seen.prGroup # NoValue) =>
            /\ ~group.last.patched
            /\ now.prGroupHash = seen.prGroupHash
            /\ now.prGroup = seen.prGroup
            /\ seen.cond # "False" => group.last.written = {}

\* the second call on the PLR of the tests found the metadata of the first
C22_Witness ==
  /\ GroupCalled("EnsurePRGroupAnnotated")
  /\ group.last.plr = buildPipelineRunName
  /\ group.last.seen.prGroup = sourceBranch
  /\ group.last.seen.prGroupHash # NoValue
  /\ ~group.last.patched
  /\ group.last.written = {}
  /\ group.plrs[buildPipelineRunName].prGroup = sourceBranch

\* C23: after EnsurePRGroupAnnotated on a group-annotated build PLR that has
\* failed, with no write failing, the latest Snapshot of each component for
\* the PLR's group and every build of the group still running carry a notice
\* that contains the PLR's name, its component's name and the group's name,
\* and the call returned without cancel, requeue or error.
C23_FailureFanOut ==
  (/\ GroupCalled("EnsurePRGroupAnnotated")
   /\ group.last.seen.cond = "False"
   /\ group.last.log = {}) =>
    LET p == group.last.plr
        o == group.plrs[p]
    IN /\ \A n \in DOMAIN group.snaps :
            (/\ group.snaps[n].prGroupHash = o.prGroupHash
             /\ ~\E m \in DOMAIN group.snaps :
                   /\ group.snaps[m].prGroupHash = o.prGroupHash
                   /\ group.snaps[m].component = group.snaps[n].component
                   /\ group.snaps[m].created > group.snaps[n].created)
              => Notified([kind |-> "Snapshot", name |-> n], p, o.component, o.prGroup)
       /\ \A q \in DOMAIN group.plrs :
            (group.plrs[q].prGroupHash = o.prGroupHash /\ group.plrs[q].cond = "Unknown")
              => Notified([kind |-> "PipelineRun", name |-> q], p, o.component, o.prGroup)
       /\ group.last.result =
            [CancelRequest |-> FALSE, RequeueRequest |-> FALSE, err |-> NilErr]

\* the failed build of the tests: both Snapshots of the group and the build
\* of the other component, still running, got the notice
C23_Witness ==
  /\ GroupCalled("EnsurePRGroupAnnotated")
  /\ group.last.plr = buildPipelineRunName
  /\ group.plrs[buildPipelineRunName].cond = "False"
  /\ group.plrs[buildPipelineRunName].prGroup = prGroup
  /\ group.plrs[buildPipelineRun2Name].cond = "Unknown"
  /\ group.last.log = {}
  /\ group.snaps[hasSnapshotName].prGroupCreation =
       <<"build PLR ", buildPipelineRunName, " failed for component ", hasComp,
         " so it can't be added to the group Snapshot for PR group ", prGroup>>
  /\ group.snaps[hasComSnapshot2Name].prGroupCreation # <<>>
  /\ group.snaps[olderSnapshotName].prGroupCreation = <<>>
  /\ group.plrs[buildPipelineRun2Name].prGroupCreation # <<>>

\* C24: when a write of the fan-out fails, every other target of the fan-out
\* still carries the notice.
C24_FanOutToleratesFailure ==
  (GroupCalled("EnsurePRGroupAnnotated") /\ group.last.log # {}) =>
    \A t \in group.last.targets :
      [failed |-> t] \notin group.last.log =>
        Notified(t, group.last.plr, group.plrs[group.last.plr].component,
                 group.plrs[group.last.plr].prGroup)

\* the write to one Snapshot failed; the other Snapshot and the running
\* build were annotated
C24_Witness ==
  /\ GroupCalled("EnsurePRGroupAnnotated")
  /\ group.last.plr = buildPipelineRunName
  /\ group.last.log = {[failed |-> [kind |-> "Snapshot", name |-> hasSnapshotName]]}
  /\ group.snaps[hasSnapshotName].prGroupCreation = <<>>
  /\ group.snaps[hasComSnapshot2Name].prGroupCreation # <<>>
  /\ group.plrs[buildPipelineRun2Name].prGroupCreation # <<>>

OpenInGroup ==
  {c \in {hasComp, hasComp2} :
     \E n \in group.last.opened :
       /\ group.snaps[n].component = c
       /\ group.snaps[n].prGroupHash = group.last.seen.prGroupHash}

\* the provisional report went to the git provider for the target
ReportedFor(target) ==
  \E i \in DOMAIN group.last.reported : group.last.reported[i].target = target

\* C26: a provisional report includes a report for the group Snapshot if and
\* only if more than one component has an open pull/merge request in the
\* PLR's group; with exactly one such component the report is for the
\* component Snapshot alone.
C26_GroupExpectedIffSeveral ==
  (GroupCalled("EnsureIntegrationTestReportedToGitProvider")
     /\ group.last.reported # <<>>) =>
    /\ ReportedFor("group") <=> Cardinality(OpenInGroup) > 1
    /\ Cardinality(OpenInGroup) = 1 =>
         \A i \in DOMAIN group.last.reported :
           group.last.reported[i].target = "component"

\* two components with open pull requests in the group: the group is reported
C26_Witness ==
  /\ GroupCalled("EnsureIntegrationTestReportedToGitProvider")
  /\ OpenInGroup = {hasComp, hasComp2}
  /\ ReportedFor("group")
  /\ "group snapshot is expected to be created for build pipelinerun" \in group.last.log

\* one component with an open pull request: the component alone is reported
C26_WitnessSingle ==
  /\ GroupCalled("EnsureIntegrationTestReportedToGitProvider")
  /\ OpenInGroup = {hasComp}
  /\ group.last.reported # <<>>
  /\ ~ReportedFor("group")

\* C27: EnsureIntegrationTestReportedToGitProvider on a PLR triggered by a
\* pull request that lacks the group-hash label or the group-name annotation
\* reports nothing, leaves the report annotation alone, and returns
\* RequeueRequest with an error.
C27_NotAnnotatedRequeues ==
  (/\ GroupCalled("EnsureIntegrationTestReportedToGitProvider")
   /\ group.last.seen.pullRequest
   /\ (group.last.seen.prGroupHash = NoValue \/ group.last.seen.prGroup = NoValue)) =>
    /\ group.last.reported = <<>>
    /\ ~group.last.patched
    /\ group.plrs[group.last.plr].report = group.last.seen.report
    /\ group.last.result.RequeueRequest
    /\ group.last.result.err # NilErr

C27_Witness ==
  /\ GroupCalled("EnsureIntegrationTestReportedToGitProvider")
  /\ group.last.seen.pullRequest
  /\ group.last.seen.prGroupHash = NoValue
  /\ group.last.seen.cond = "True"
  /\ group.last.result.RequeueRequest
  /\ "pr group info has not been added to build pipelineRun metadata, try again"
       \in group.last.log

\* C28: EnsureIntegrationTestReportedToGitProvider on a PLR that carries the
\* Snapshot-name annotation reports nothing to the git provider; when the PLR
\* comes from a pull request and carries the group metadata, the pass records
\* "SnapshotCreated" in the report annotation and returns without cancel or
\* error.
C28_NoProvisionalAfterSnapshot ==
  (GroupCalled("EnsureIntegrationTestReportedToGitProvider")
     /\ group.last.seen.snapshot) =>
    /\ group.last.reported = <<>>
    /\ (/\ group.last.seen.pullRequest
        /\ group.last.seen.prGroupHash # NoValue
        /\ group.last.seen.prGroup # NoValue) =>
         /\ group.plrs[group.last.plr].report = "SnapshotCreated"
         /\ ~group.last.result.CancelRequest
         /\ group.last.result.err = NilErr

\* a build reported as in progress, then succeeded and got its Snapshot
C28_Witness ==
  /\ GroupCalled("EnsureIntegrationTestReportedToGitProvider")
  /\ group.last.seen.snapshot
  /\ group.last.seen.report = "BuildPLRInProgress"
  /\ group.plrs[group.last.plr].report = "SnapshotCreated"
  /\ group.last.reported = <<>>

\* C29: when the PLR comes from a pull request, carries the group metadata
\* and has no Snapshot-name annotation, the pass derives BuildPLRInProgress
\* from condition Unknown, BuildPLRFailed from condition False and
\* SnapshotCreationFailed from a succeeded PLR with the create-snapshot
\* failure annotation, and after the pass the report annotation is the name
\* of that status.
C29_StatusFromBuild ==
  (/\ GroupCalled("EnsureIntegrationTestReportedToGitProvider")
   /\ group.last.seen.pullRequest
   /\ group.last.seen.prGroupHash # NoValue /\ group.last.seen.prGroup # NoValue
   /\ ~group.last.seen.snapshot) =>
    LET expected == CASE group.last.seen.cond = "Unknown" -> "BuildPLRInProgress"
                      [] group.last.seen.cond = "False" -> "BuildPLRFailed"
                      [] group.last.seen.cond = "True" /\ group.last.seen.createSnapshot
                           -> "SnapshotCreationFailed"
                      [] OTHER -> NoValue
    IN expected # NoValue =>
         /\ group.last.status = expected
         /\ group.plrs[group.last.plr].report = expected
         /\ \A i \in DOMAIN group.last.reported :
              group.last.reported[i].status = expected
         /\ group.last.seen.report # expected => group.last.reported # <<>>
         /\ ~group.last.result.CancelRequest
         /\ group.last.result.err = NilErr

\* the build was reported in progress, failed, and is now reported as failed
C29_Witness ==
  /\ GroupCalled("EnsureIntegrationTestReportedToGitProvider")
  /\ group.last.seen.cond = "False"
  /\ group.last.seen.report = "BuildPLRInProgress"
  /\ group.last.status = "BuildPLRFailed"
  /\ group.plrs[group.last.plr].report = "BuildPLRFailed"
  /\ group.last.reported # <<>>

\* C30: every Snapshot derived for a build PLR carries the back-reference
\* label with the PLR's name, the application-name label, the type label
\* "component", the component label with the built component's name and the
\* build-start-time annotation.
C30_DerivedSnapshotLabelled ==
  (derived.done /\ derived.out.err = NilErr) =>
    LET snapshot == derived.out.snapshot
    IN /\ {BuildPipelineRunNameLabel, ApplicationNameLabel, SnapshotTypeLabel,
           SnapshotComponentLabel} \subseteq DOMAIN snapshot.labels
       /\ snapshot.labels[BuildPipelineRunNameLabel] = derived.plrName
       /\ snapshot.labels[ApplicationNameLabel] = hasApp
       /\ snapshot.labels[SnapshotTypeLabel] = "component"
       /\ snapshot.labels[SnapshotComponentLabel] = hasComp
       /\ BuildPipelineRunStartTime \in DOMAIN snapshot.annotations
       /\ snapshot.annotations[BuildPipelineRunStartTime] # ""

\* the Snapshot derived for the second build PLR points back at it
C30_Witness ==
  /\ derived.done /\ derived.out.err = NilErr
  /\ derived.plrName = buildPipelineRun2Name
  /\ derived.out.snapshot.labels[BuildPipelineRunNameLabel] = buildPipelineRun2Name
  /\ derived.out.snapshot.labels[SnapshotComponentLabel] = hasComp

\* C31: a pass of EnsureSnapshotExists that began on a PLR with condition
\* Unknown and a deletion timestamp, and whose read of the PLR is answered
\* with the PLR, leaves the PLR without the finalizer, creates no Snapshot
\* and returns CancelRequest = false without error; the PLR then holds no
\* finalizer that would block its deletion.
C31_RunningDeletedReleased ==
  \A p \in DOMAIN plr :
    (/\ Returning(p, "EnsureSnapshotExists")
     /\ pass[p].seen.cond = "Unknown" /\ pass[p].seen.deleting
     /\ pass[p].branch \notin {"conflict", "notFound"}) =>
      /\ ~plr[p].finalizer
      /\ "Snapshot" \notin pass[p].wrote
      /\ {s \in snapshots : s.by = p} = {}
      /\ ~pass[p].result.CancelRequest
      /\ ~pass[p].result.RequeueRequest
      /\ pass[p].result.err = NilErr

\* the PLR of the test: still reported running, deleted, finalizer held
C31_Witness ==
  \E p \in DOMAIN plr :
    /\ ReturningFrom(p, "notSucceeded")
    /\ pass[p].seen.cond = "Unknown" /\ pass[p].seen.deleting
    /\ pass[p].seen.finalizer
    /\ plr[p].exists /\ plr[p].cond = "Unknown"
    /\ pass[p].wrote = {"finalizer"}

\* C32: a pass of EnsureSnapshotExists that began on a succeeded PLR without
\* the chains-signed annotation writes nothing, creates no Snapshot and
\* returns CancelRequest = false with the error "Not processing the
\* pipelineRun because it's not yet signed with Chains"; and the worker of a
\* PLR has created no Snapshot for a PLR that is not signed.
C32_UnsignedNotProcessed ==
  /\ \A p \in DOMAIN plr :
       (/\ Returning(p, "EnsureSnapshotExists")
        /\ pass[p].seen.cond = "True" /\ ~pass[p].seen.signed) =>
         /\ pass[p].wrote = {}
         /\ ~pass[p].result.CancelRequest
         /\ pass[p].result.err # NilErr
         /\ pass[p].result.err.text =
              <<"Not processing the pipelineRun because it's not yet signed with Chains">>
  /\ \A s \in snapshots : s.by \in DOMAIN plr => plr[s.by].signed

\* the succeeded PLR of the test, results valid, not yet signed
C32_Witness ==
  \E p \in DOMAIN plr :
    /\ ReturningFrom(p, "notSigned")
    /\ plr[p].cond = "True" /\ ~plr[p].signed
    /\ prepareSnapshotForPipelineRun(plr[p], p, hasComp, hasApp).err = NilErr
    /\ GetAllSnapshotsForBuildPipelineRun(p) = {}

\* the Snapshot-name annotation the pass of p began on names no Snapshot of
\* the store
SawOrphanedAnnotation(p) ==
  /\ pass[p].seen.snapshot # NoSnapshot
  /\ ~\E s \in snapshots : s.name = pass[p].seen.snapshot

C34_NoSnapshotUnlessSucceeded ==
  \A p \in DOMAIN plr :
    /\ (\E s \in snapshots : s.by = p) => plr[p].cond = "True"
    /\ plr[p].snapshot # NoSnapshot => plr[p].cond = "True"
    /\ (/\ Returning(p, "EnsureSnapshotExists")
        /\ pass[p].seen.cond = "Unknown" /\ ~pass[p].seen.deleting) =>
         /\ pass[p].wrote = {}
         /\ plr[p].snapshot = NoSnapshot
         /\ plr[p].createSnapshot = NoAnnotation
         /\ plr[p].finalizer = pass[p].seen.finalizer
         /\ {s \in snapshots : s.by = p} = {}
         /\ ~pass[p].result.CancelRequest
         /\ pass[p].result.err = NilErr

\* a pass over the running PLR that holds the finalizer
C34_Witness ==
  \E p \in DOMAIN plr :
    /\ ReturningFrom(p, "running")
    /\ pass[p].seen.finalizer /\ plr[p].finalizer
    /\ plr[p].cond = "Unknown" /\ ~plr[p].deleting
    /\ snapshots = {}

\* the statuses that are neither pending nor in progress
TerminalStatusValues ==
  IntegrationTestStatusValues \ {"Pending", "InProgress", "BuildPLRInProgress"}

\* the last call reported a terminal status for a merge request from a fork
ReportedTerminalForFork ==
  /\ Reported
  /\ gitlab.last.report.Status \in TerminalStatusValues
  /\ IsMergeRequest(gitlab.snapshot)
  /\ gitlab.snapshot.source # gitlab.snapshot.target

\* C35, as claimed: a ReportStatus call with a terminal status for a merge
\* request whose source and target projects differ sends its requests for
\* notes, and a note it posts, to the source project.
C35_Claimed ==
  ReportedTerminalForFork =>
    /\ Requests("GET", "notes") # {}
    /\ \A i \in DOMAIN gitlab.last.requests :
         gitlab.last.requests[i].resource = "notes"
           => gitlab.last.requests[i].project = gitlab.snapshot.source

\* C35, amended: a ReportStatus call with a terminal status for a merge
\* request whose source and target projects differ still looks up the notes
\* and, finding none for the scenario and the Snapshot, posts the note; every
\* request for notes goes to the target project, and so does the note the
\* provider accepts.
C35_ForkedCommentToTarget ==
  ReportedTerminalForFork =>
    /\ Requests("GET", "notes") # {}
    /\ (~gitlab.last.existingNote /\ gitlab.last.failed # 1)
         => Requests("POST", "notes") # {}
    /\ \A i \in DOMAIN gitlab.last.requests :
         gitlab.last.requests[i].resource = "notes"
           => gitlab.last.requests[i].project = gitlab.snapshot.target
    /\ (Requests("POST", "notes") # {} /\ gitlab.last.failed = 0) =>
         /\ gitlab.notes # <<>>
         /\ gitlab.notes[Len(gitlab.notes)].project = gitlab.snapshot.target
         /\ gitlab.notes[Len(gitlab.notes)].scenario = gitlab.last.report.ScenarioName

\* the call of the test: projects 123 and 456, a provisioning error
C35_Witness ==
  /\ ReportedTerminalForFork
  /\ gitlab.snapshot.source = sourceProjectID
  /\ gitlab.snapshot.target = targetProjectID
  /\ gitlab.last.report.Status = "EnvironmentProvisionError"
  /\ Requests("POST", "notes") # {}
  /\ Requests("POST", "statuses") = {}
  /\ gitlab.last.err = NilErr

\* C36: EnsureIntegrationTestReportedToGitProvider on a build PLR without
\* the pipelines-as-code pull-request label reports nothing to the git
\* provider, leaves the PLR without a report annotation and returns without
\* cancel, requeue or error.
C36_NotPullRequestNotReported ==
  (GroupCalled("EnsureIntegrationTestReportedToGitProvider")
     /\ ~group.last.seen.pullRequest) =>
    /\ group.last.reported = <<>>
    /\ ~group.last.patched
    /\ group.plrs[group.last.plr].report = NoValue
    /\ ~group.last.result.CancelRequest
    /\ ~group.last.result.RequeueRequest
    /\ group.last.result.err = NilErr

\* a failed build that no pull request triggered
C36_Witness ==
  /\ GroupCalled("EnsureIntegrationTestReportedToGitProvider")
  /\ ~group.last.seen.pullRequest
  /\ group.last.seen.cond = "False"
  /\ "build pipelineRun is not created by pull/merge request, no need to set integration test status in git provider"
       \in group.last.log

\* the status of the build the last call was made on, as the call saw it
StatusSeen ==
  CASE group.last.seen.cond = "Unknown" -> "BuildPLRInProgress"
    [] group.last.seen.cond = "False" -> "BuildPLRFailed"
    [] group.last.seen.cond = "True" /\ group.last.seen.createSnapshot
         /\ ~group.last.seen.snapshot -> "SnapshotCreationFailed"
    [] OTHER -> NoValue

\* the last call passed the gates of the provisional report
ProvisionalCalled ==
  /\ GroupCalled("EnsureIntegrationTestReportedToGitProvider")
  /\ group.last.seen.pullRequest
  /\ group.last.seen.prGroupHash # NoValue /\ group.last.seen.prGroup # NoValue
  /\ ~group.last.seen.snapshot

\* C37: a pass over a PLR whose report annotation already records the status
\* of the build as it is posts nothing to the reporter, leaves the annotation
\* as it was and returns without cancel or error; a pass over a PLR whose
\* annotation records BuildPLRInProgress while the build has failed, or has
\* succeeded with the create-snapshot failure annotation, posts
\* BuildPLRFailed or SnapshotCreationFailed and records it.
C37_ReportedOncePerStatus ==
  ProvisionalCalled =>
    /\ (StatusSeen # NoValue /\ group.last.seen.report = StatusSeen) =>
         /\ group.last.reported = <<>>
         /\ ~group.last.patched
         /\ group.plrs[group.last.plr].report = group.last.seen.report
         /\ ~group.last.result.CancelRequest
         /\ group.last.result.err = NilErr
    /\ (/\ group.last.seen.report = "BuildPLRInProgress"
        /\ StatusSeen \in {"BuildPLRFailed", "SnapshotCreationFailed"}) =>
         /\ group.last.reported # <<>>
         /\ \A i \in DOMAIN group.last.reported :
              group.last.reported[i].status = StatusSeen
         /\ group.plrs[group.last.plr].report = StatusSeen

\* the second call of the test: the build still runs and was reported so
C37_Witness ==
  /\ ProvisionalCalled
  /\ group.last.seen.cond = "Unknown"
  /\ group.last.seen.report = "BuildPLRInProgress"
  /\ group.last.reported = <<>>
  /\ "integration test has been set correctly or is being processed, no need to set integration test status from build pipelinerun"
       \in group.last.log

\* the build was reported in progress and its Snapshot could not be derived
C37_WitnessChanged ==
  /\ ProvisionalCalled
  /\ group.last.seen.report = "BuildPLRInProgress"
  /\ StatusSeen = "SnapshotCreationFailed"
  /\ group.plrs[group.last.plr].report = "SnapshotCreationFailed"
  /\ group.last.reported # <<>>

\* C38: whenever the finalizer is removed from a succeeded PLR that has no
\* deletion timestamp, the PLR carries the Snapshot-name annotation or the
\* create-snapshot failure annotation, and, as long as no Snapshot has been
\* pruned, a Snapshot back-references the PLR or the PLR carries the failure
\* annotation; this holds with crashes between any two store calls.
C38_FinalizerRemovedLast ==
  [][\A p \in DOMAIN plr :
       (/\ plr[p].finalizer /\ ~plr'[p].finalizer
        /\ plr[p].cond = "True" /\ ~plr[p].deleting) =>
         /\ \/ plr[p].snapshot # NoSnapshot
            \/ plr[p].createSnapshot.status = "failed"
         /\ Cardinality(snapshots) = created =>
              \/ GetAllSnapshotsForBuildPipelineRun(p) # {}
              \/ plr[p].createSnapshot.status = "failed"]_vars

\* the finalizer was removed by the pass that followed a crash between the
\* creation of the Snapshot and the annotation of the PLR
C38_Witness ==
  \E p \in DOMAIN plr :
    /\ ReturningFrom(p, "existing")
    /\ "finalizer" \in pass[p].wrote
    /\ plr[p].cond = "True" /\ ~plr[p].deleting /\ ~plr[p].finalizer
    /\ \E s \in GetAllSnapshotsForBuildPipelineRun(p) : s.by = p
    /\ Cardinality(snapshots) = created

\* exactly one Snapshot back-references the PLR and the PLR is annotated
\* with its name
Associated(p) ==
  /\ Cardinality(GetAllSnapshotsForBuildPipelineRun(p)) = 1
  /\ plr[p].snapshot \in SnapshotNamesOf(p)

BackReferencing(p) == {s \in snapshots : s.buildPipelineRun = p}

\* C40: with two build PLRs of the same component reconciled by two workers
\* whose store calls interleave, no PLR ever has more than one Snapshot
\* back-referencing it, a PLR's annotation always names a Snapshot that
\* back-references that PLR, and a pass that began on a succeeded, signed PLR
\* with valid results and returns without error leaves the PLR with exactly
\* one Snapshot back-referencing it, named by its annotation.
C40_ConcurrentPipelineRunsApart ==
  \A p \in DOMAIN plr :
    /\ Cardinality(BackReferencing(p)) <= 1
    /\ plr[p].snapshot # NoSnapshot =>
         \E s \in BackReferencing(p) : s.name = plr[p].snapshot
    /\ \A s \in snapshots : s.by = s.buildPipelineRun
    /\ (/\ Returning(p, "EnsureSnapshotExists")
        /\ DerivableFrom(pass[p].seen, p)
        /\ pass[p].result.err = NilErr) =>
         /\ Cardinality(BackReferencing(p)) = 1
         /\ \E s \in BackReferencing(p) : s.name = plr[p].snapshot

\* the two passes overlap: both created their Snapshot before either was
\* annotated, and each PLR is now annotated with its own
C40_Witness ==
  /\ DOMAIN plr = BuildPipelineRuns
  /\ ReturningFrom(buildPipelineRunName, "create")
  /\ pc[buildPipelineRun2Name] = "finalizer"
  /\ pass[buildPipelineRun2Name].branch = "create"
  /\ Cardinality(snapshots) = 2
  /\ \A p \in BuildPipelineRuns :
       \E s \in BackReferencing(p) : s.name = plr[p].snapshot /\ s.by = p
  /\ plr[buildPipelineRunName].snapshot > plr[buildPipelineRun2Name].snapshot

====
